---- MODULE Spec2Model ----
(***************************************************************************)
(* Model of the antigravity-sync engine: the cross-window lock marker and  *)
(* the sync()/push()/pull() orchestration of SyncService, the copy engine  *)
(* in both directions, and the Smart Merge of GitService.                  *)
(***************************************************************************)
EXTENDS Integers, Sequences, FiniteSets, TLC

(***************************************************************************)
(* Bounds                                                                  *)
(***************************************************************************)
\* clock granularity of the lock world, in milliseconds
TickMs == 150000
\* the clock of the lock world runs from 0 to MaxTicks * TickMs
MaxTicks == 3
\* file sizes run from 0 to MaxSize bytes
MaxSize == 5
\* files of one size differ in their bytes: fill values 1..MaxFill
MaxFill == 2
\* commit times and mtimes of the merge are 1..MaxMergeTime seconds
MaxBaseSize == 1
QuietPeriod == 2
IntervalTicks == 2
MaxTimerTime == 5
MaxTimerIds == 6
MaxInFlight == 2
MaxReentries == 2
MaxSubdirLen == 3
MaxStash == 2
MaxDebounceTime == 7
MaxMergeTime == 3
\* resolution of a file's mtimeMs: MsUnit clock units make one millisecond
MsUnit == 2
\* the mtimes of the copy engine lie StepMs milliseconds apart ...
StepMs == 500
\* ... and run from 0 to MaxStep * StepMs milliseconds
MaxStep == 3
\* push() is followed up to MaxCommits commits
MaxCommits == 2
\* the replicas make at most MaxEdits edits before they stop editing
MaxEdits == 2
\* the files of the replicas have at most MaxReplicaSize bytes
MaxReplicaSize == 1
\* at most MaxScopeFiles top-level folders of a tree hold a file
MaxScopeFiles == 2
\* the settings hold at most MaxCustomPatterns exclude patterns ...
MaxCustomPatterns == 2
\* ... and .antigravityignore at most MaxIgnoreLines pattern lines
MaxIgnoreLines == 1

(***************************************************************************)
(* Program constants                                                       *)
(***************************************************************************)
LOCK_TIMEOUT_MS == 5 * 60 * 1000

\* the VS Code windows (host processes) that share one local repository
Procs == {"w1", "w2"}

Times == {k * TickMs : k \in 0..MaxTicks}

VARIABLES
  lockFile,   \* the marker <repo>/.sync.lock: [exists, ts]
  now,        \* Date.now()
  pc,         \* pc[p]: position of the sync() call of window p
  lockTime,   \* lockTime[p]: the timestamp acquireLock read from the marker
  found,      \* found[p]: the branch acquireLock took on the marker it met
  result,     \* result[p]: what the last acquireLock of p returned
  marker0,    \* how the marker stood before the first call: absent, stale or valid
  isSyncing,  \* isSyncing[p]: the in-process flag of SyncService
  status,     \* status[p]: the state shown by StatusBarService
  pcPush,     \* pcPush[p]: position of a standalone push() of window p
  pcPull      \* pcPull[p]: position of a standalone pull() of window p

lockVars == <<lockFile, now, pc, lockTime, found, result, marker0>>
procVars == <<isSyncing, status, pcPush, pcPull>>

VARIABLES
  mExt,        \* extension of the differing path Smart Merge looks at
  mLocal,      \* the file in the repository working tree: [exists, content, mtime]
  mLocal0,     \* the same file as it was when Smart Merge started
  mBase,       \* the file in the last commit both sides had: [exists, content]
  mRemote,     \* the file at origin/main: [exists, content]
  mRemoteUnits, \* length of the string git.show returned for it (0: absent)
  mRemoteTime, \* commit time of the last remote commit that touched the path (0: none)
  mDeletedAt,  \* commit time of the remote commit that deleted the path (0: none)
  mKeepLocal,  \* the winner Smart Merge chose
  mConflict,   \* the file at buildConflictPath(path): [exists, content]
  mPc          \* position in the loop body of handleSmartMerge

mergeVars == <<mExt, mLocal, mLocal0, mBase, mRemote, mRemoteUnits, mRemoteTime, mDeletedAt, mKeepLocal, mConflict, mPc>>

VARIABLES
  wLocal,        \* the file in the working directory (geminiPath): [exists, content, mtime]
  wLocal0,       \* the same file before the operation under way
  wRepo,         \* the file in the repository mirror (syncDataRoot): [exists, content, mtime]
  wHead,         \* the file in the HEAD commit of the local repository: [exists, content]
  wRemoteTip,    \* the file at the tip of origin/main: [exists, content]
  wSnapshot,     \* the file <geminiPath>/.sync-conflicts/<name>.remote-<stamp><ext>
  wStats,        \* PullStats of the copy under way
  wCopied,       \* copiedCount of the last copyFilesToSyncRepo
  wCommits,      \* number of commits made by this replica
  wPushes,       \* number of git push calls that succeeded
  wLast,         \* what happened last to this replica: edit, push, ...
  wClock,        \* the replica's clock, in steps of StepMs milliseconds
  wIgnored,      \* filterService.shouldIgnore(relativePath) of the file
  wArtifactName, \* the file's name includes '.conflict-'
  wUnderSync,    \* the file lies below a directory named '.sync'
  wPc            \* position of the copy under way

copyVars == <<wLocal, wLocal0, wRepo, wHead, wRemoteTip, wSnapshot, wStats, wCopied,
              wCommits, wPushes, wLast, wClock, wIgnored, wArtifactName, wUnderSync, wPc>>

VARIABLES
  eLocal,    \* per replica: the file in its working directory
  eRepo,     \* per replica: the file in its repository mirror
  eHead,     \* per replica: the file in the HEAD commit of its repository
  eRemote,   \* the file at the tip of origin/main
  eClock,    \* the time, in steps of StepMs milliseconds
  eEdits,    \* number of edits made so far
  eStopped   \* the replicas have stopped editing

replicaVars == <<eLocal, eRepo, eHead, eRemote, eClock, eEdits, eStopped>>

VARIABLES
  sPc,          \* position inside gitService.pull -> handleSmartMerge and its caller
  sCaller,      \* the operation that called gitService.pull: sync, push or pull
  sFailed,      \* the git commands that have failed so far
  sPushCalls,   \* number of `git push origin main` calls made by Smart Merge
  sRetryPulls,  \* number of `git pull --rebase=false` retries made by Smart Merge
  sForced,      \* a push was issued with a force option
  sThrown,      \* the operation rejected (the error reached the caller)
  sStatus,      \* state shown by the status bar
  sMergePushed, \* the merge commit has reached origin/main
  sArtifact     \* the conflict copy of this Smart Merge: none, written, staged,
                \* committed, pushed

tailVars == <<sPc, sCaller, sFailed, sPushCalls, sRetryPulls, sForced, sThrown, sStatus,
              sMergePushed, sArtifact>>

VARIABLES
  gFolders,   \* config.syncFolders
  gLocal,     \* the top-level folders of geminiPath that hold a file
  gMirror,    \* the top-level folders of the repository mirror that hold a file
  gCopied,    \* folders whose file copyFilesToSyncRepo has copied into the mirror
  gWritten,   \* folders whose file copyFilesFromSyncRepo has written to geminiPath
  gPc         \* position: start, pulled, done

scopeVars == <<gFolders, gLocal, gMirror, gCopied, gWritten, gPc>>

VARIABLES
  fPath,         \* the relative path given to shouldIgnore
  fCustom,       \* config.excludePatterns
  fIgnoreLines,  \* the pattern lines of .antigravityignore
  fIgnored,      \* the value returned by shouldIgnore
  fPc            \* position: start, done

filterVars == <<fPath, fCustom, fIgnoreLines, fIgnored, fPc>>

VARIABLES
  cEntry,      \* who runs: configureRepository, handleSaveConfig or activate
  cPc,         \* position in the try block and in initialize()
  cStore,      \* what is stored: [url, token, password]
  cEntered,    \* the sync password typed in the configuration form
  cEnabled,    \* config.syncPasswordEnabled
  cRepo,       \* the sync repository directory: empty, files (no .git), repo
  cUrl,        \* the repository URL of this attempt (typed in, or of the settings)
  cOrigin,     \* the URL of the remote origin in .git/config (NoUrl: no remote)
  cHashFile,   \* <syncDataRoot>/.sync/password.sha256: [exists, hash, newline]
  cHashFile0,  \* the same file before initialize()
  cReadPw,     \* the password ensureSyncPassword read ("unread" before)
  cCopied,     \* copyFilesToSyncRepo has run
  cError       \* the error that was thrown ("none": no error)

setupVars == <<cEntry, cPc, cStore, cEntered, cEnabled, cRepo, cUrl, cOrigin, cHashFile,
               cHashFile0, cReadPw, cCopied, cError>>

VARIABLES
  dNow,         \* the clock, in ticks
  dWatching,    \* this.watcher is set
  dAutoSync,    \* config.enabled && config.autoSync
  dPending,     \* this.pendingChanges
  dTimers,      \* the timeouts that are armed
  dHandle,      \* this.debounceTimer: the timeout it refers to
  dLastEvent,   \* tick of the last change event (NoTimer: none yet)
  dBurstPushes, \* calls of push() since the burst began
  dPushedAt,    \* tick of the last of them
  dTrigger,     \* what the last triggerSync with pending changes did
  dPushThrew    \* the push() awaited by the last triggerSync threw

debounceVars == <<dNow, dWatching, dAutoSync, dPending, dTimers, dHandle, dLastEvent,
                  dBurstPushes, dPushedAt, dTrigger, dPushThrew>>

VARIABLES
  tNow,             \* the clock, in ticks
  tAutoSync,        \* config.enabled && config.autoSync
  tSyncTimers,      \* the armed interval timers whose callback calls sync()
  tCountdownTimers, \* the armed interval timers of the countdown
  tSyncHandle,      \* this.autoSyncTimer: id of a timer, or NoHandle
  tCountdownHandle, \* this.countdownInterval
  tNextSyncTime,    \* this.nextSyncTime
  tNextId,          \* the last timer id handed out
  tInFlight,        \* calls of sync() by the timer that have not returned
  tRunning,         \* the last startAutoSync/stopAutoSync call started the timers
  tLast,            \* the last attempt that ended: [outcome, at, next]
  tLateStart        \* a timer has called sync() while auto sync was stopped

timerVars == <<tNow, tAutoSync, tSyncTimers, tCountdownTimers, tSyncHandle, tCountdownHandle,
               tNextSyncTime, tNextId, tInFlight, tRunning, tLast, tLateStart>>

VARIABLES
  rCalls,   \* calls of sync() made while the window was already syncing
  rBefore,  \* marker, isSyncing and status as the last such call found them
  rAfter    \* the same as it left them

reentryVars == <<rCalls, rBefore, rAfter>>

VARIABLES
  kPlatform,  \* "posix" or "win32": the path module in use
  kSubdir,    \* config.syncRepoSubdir, a sequence of characters
  kRoot       \* the resolved sync data root, relative to the repository root

subdirVars == <<kPlatform, kSubdir, kRoot>>

VARIABLES
  qUrl,      \* the repositoryUrl setting ('' when unset)
  qSecret,   \* the secret stored under antigravitySync.gitToken, or Undefined
  qPc,       \* position of the isConfigured() call under way
  qReadUrl,  \* config.repositoryUrl as that call read it
  qAnswer    \* what the last isConfigured() returned

configuredVars == <<qUrl, qSecret, qPc, qReadUrl, qAnswer>>

VARIABLES
  hTree,        \* per path of the mirror: "clean", "modified" or "untracked"
  hStash,       \* the stash entries, newest first; an entry is a set of paths
  hConflicted,  \* status.conflicted is not empty
  hPc,          \* position of the pull() under way
  hHasChanges,  \* hasChanges as that pull() computed it
  hSetAside,    \* that pull() created a stash entry
  hPopTried,    \* that pull() called git stash pop
  hExit         \* how the last pull() ended

stashVars == <<hTree, hStash, hConflicted, hPc, hHasChanges, hSetAside, hPopTried, hExit>>

VARIABLES
  nTree,       \* per machine: .sync.lock in the working tree of its clone
  nHead,       \* per machine: .sync.lock in the HEAD commit of its clone
  nRemote,     \* .sync.lock at the tip of origin/main
  nAhead,      \* per machine: HEAD holds a commit the remote rejected
  nPc,         \* per machine: position of its sync()
  nSkippedBy,  \* per machine: whose marker made its last acquireLock return false
  nNow         \* the clock

markerVars == <<nTree, nHead, nRemote, nAhead, nPc, nSkippedBy, nNow>>

VARIABLES
  cGitService,  \* this.gitService of the SyncService is set
  cExchanged    \* an operation after the attempt ran git pull, copy, commit, push

gateVars == <<cGitService, cExchanged>>

vars == <<lockVars, procVars, mergeVars, copyVars, replicaVars, tailVars, scopeVars, filterVars, setupVars, debounceVars, timerVars, reentryVars, subdirVars, configuredVars, stashVars, markerVars, gateVars>>

\* what parseInt gives for a content that is not a number (NaN)
NotANumber == 0 - 1
NoFile == [exists |-> FALSE, ts |-> 0]
Marker(t) == [exists |-> TRUE, ts |-> t]

\* no window has called anything yet
InitProcIdle ==
  /\ isSyncing = [p \in Procs |-> FALSE]
  /\ status = [p \in Procs |-> "pending"]
  /\ pcPush = [p \in Procs |-> "idle"]
  /\ pcPull = [p \in Procs |-> "idle"]

\* no marker, no sync() under way
InitLockIdle ==
  /\ now = 0
  /\ lockFile = NoFile
  /\ marker0 = "absent"
  /\ pc = [p \in Procs |-> "idle"]
  /\ lockTime = [p \in Procs |-> 0]
  /\ found = [p \in Procs |-> "none"]
  /\ result = [p \in Procs |-> FALSE]
  /\ InitProcIdle

\* Date.now() - lockTime > LOCK_TIMEOUT_MS
IsStale_inclusive(t, clock) == clock - t >= LOCK_TIMEOUT_MS
IsStale(t, clock) == clock - t > LOCK_TIMEOUT_MS

(***************************************************************************)
(* acquireLock, one file-system call per step.  The calls of two windows   *)
(* interleave; inside one window the function runs without interruption.   *)
(***************************************************************************)
AcqSteps == {"a_exists", "a_read", "a_unlink", "a_catch", "a_create"}

\* fs.existsSync(lockFile)
AcqExists(p) ==
  /\ pc[p] = "a_exists"
  /\ pc' = [pc EXCEPT ![p] = IF lockFile.exists THEN "a_read" ELSE "a_create"]
  /\ found' = [found EXCEPT ![p] = IF lockFile.exists THEN found[p] ELSE "absent"]
  /\ UNCHANGED <<lockFile, now, lockTime, result, marker0>>

\* parseInt(fs.readFileSync(lockFile)) and the staleness test
AcqRead(p) ==
  /\ pc[p] = "a_read"
  /\ IF ~lockFile.exists
       THEN \* readFileSync throws ENOENT: the catch block runs
            /\ pc' = [pc EXCEPT ![p] = "a_catch"]
            /\ found' = [found EXCEPT ![p] = "unreadable"]
            /\ UNCHANGED <<lockTime, result>>
       ELSE /\ lockTime' = [lockTime EXCEPT ![p] = lockFile.ts]
            /\ IF lockFile.ts # NotANumber /\ IsStale(lockFile.ts, now)
                 THEN /\ pc' = [pc EXCEPT ![p] = "a_unlink"]
                      /\ found' = [found EXCEPT ![p] = "stale"]
                      /\ UNCHANGED result
                 ELSE /\ pc' = [pc EXCEPT ![p] = "a_false"]
                      /\ found' = [found EXCEPT ![p] =
                                     IF lockFile.ts = NotANumber THEN "garbage" ELSE "fresh"]
                      /\ result' = [result EXCEPT ![p] = FALSE]
  /\ UNCHANGED <<lockFile, now, marker0>>

\* fs.unlinkSync(lockFile) of the stale marker, inside the try
AcqUnlink(p) ==
  /\ pc[p] = "a_unlink"
  /\ IF lockFile.exists
       THEN /\ lockFile' = NoFile
            /\ pc' = [pc EXCEPT ![p] = "a_create"]
       ELSE /\ pc' = [pc EXCEPT ![p] = "a_catch"]
            /\ UNCHANGED lockFile
  /\ UNCHANGED <<now, lockTime, found, result, marker0>>

\* catch { fs.unlinkSync(lockFile) }: a second ENOENT leaves acquireLock
AcqCatch(p) ==
  /\ pc[p] = "a_catch"
  /\ IF lockFile.exists
       THEN /\ lockFile' = NoFile
            /\ pc' = [pc EXCEPT ![p] = "a_create"]
       ELSE /\ pc' = [pc EXCEPT ![p] = "a_threw"]
            /\ UNCHANGED lockFile
  /\ UNCHANGED <<now, lockTime, found, result, marker0>>

\* fs.writeFileSync(lockFile, Date.now().toString(), { flag: 'wx' })
AcqCreate(p) ==
  /\ pc[p] = "a_create"
  /\ IF lockFile.exists
       THEN /\ pc' = [pc EXCEPT ![p] = "a_false"]
            /\ result' = [result EXCEPT ![p] = FALSE]
            /\ UNCHANGED lockFile
       ELSE /\ pc' = [pc EXCEPT ![p] = "a_true"]
            /\ result' = [result EXCEPT ![p] = TRUE]
            /\ lockFile' = Marker(now)
  /\ UNCHANGED <<now, lockTime, found, marker0>>

\* the passage of time
Tick ==
  /\ now < MaxTicks * TickMs
  /\ now' = now + TickMs
  /\ UNCHANGED <<lockFile, pc, lockTime, found, result, marker0>>

(***************************************************************************)
(* File contents.  A content is its size and the byte that fills it, so    *)
(* two contents of one size can differ; the empty content is unique.       *)
(***************************************************************************)
EmptyContent == [size |-> 0, fill |-> 0]
Contents == {EmptyContent} \cup {[size |-> n, fill |-> b] : n \in 1..MaxSize, b \in 1..MaxFill}
NoContent == EmptyContent

Abs(x) == IF x < 0 THEN 0 - x ELSE x
Max(a, b) == IF a >= b THEN a ELSE b

(***************************************************************************)
(* Smart Merge (GitService.handleSmartMerge), the body of the loop over    *)
(* the paths that differ between HEAD and origin/main.                     *)
(***************************************************************************)
binaryLikeExtensions ==
  {".pb", ".pbtxt", ".png", ".jpg", ".jpeg", ".webp", ".gif", ".bmp", ".bin", ".sqlite"}
Exts == {".pbtxt", ".md"}
MergeTimes == {k * 1000 : k \in 1..MaxMergeTime}
\* Smart Merge runs after every recorded time
MergeClock == (MaxMergeTime + 1) * 1000

AbsentFile == [exists |-> FALSE, content |-> NoContent, mtime |-> 0]
AbsentBlob == [exists |-> FALSE, content |-> NoContent]

InitMergeIdle ==
  /\ mExt = ".md"
  /\ mLocal = AbsentFile
  /\ mLocal0 = AbsentFile
  /\ mBase = AbsentBlob
  /\ mRemote = AbsentBlob
  /\ mRemoteUnits = 0
  /\ mRemoteTime = 0
  /\ mDeletedAt = 0
  /\ mKeepLocal = FALSE
  /\ mConflict = AbsentBlob
  /\ mPc = "idle"

Replicas == {"A", "B"}

InitReplicasIdle ==
  /\ eLocal = [r \in Replicas |-> AbsentFile]
  /\ eRepo = [r \in Replicas |-> AbsentFile]
  /\ eHead = [r \in Replicas |-> AbsentBlob]
  /\ eRemote = AbsentBlob
  /\ eClock = 0
  /\ eEdits = 0
  /\ eStopped = FALSE

InitTailIdle ==
  /\ sPc = "idle"
  /\ sCaller = "sync"
  /\ sFailed = {}
  /\ sPushCalls = 0
  /\ sRetryPulls = 0
  /\ sForced = FALSE
  /\ sThrown = FALSE
  /\ sStatus = "pending"
  /\ sMergePushed = FALSE
  /\ sArtifact = "none"

InitScopeIdle ==
  /\ gFolders = {}
  /\ gLocal = {}
  /\ gMirror = {}
  /\ gCopied = {}
  /\ gWritten = {}
  /\ gPc = "idle"

InitFilterIdle ==
  /\ fPath = "brain/note.md"
  /\ fCustom = <<>>
  /\ fIgnoreLines = <<>>
  /\ fIgnored = FALSE
  /\ fPc = "idle"

InitSetupIdle ==
  /\ cEntry = "activate"
  /\ cPc = "idle"
  /\ cStore = [url |-> FALSE, token |-> FALSE, password |-> "none"]
  /\ cEntered = "none"
  /\ cEnabled = FALSE
  /\ cRepo = "empty"
  /\ cUrl = <<>>
  /\ cOrigin = <<>>
  /\ cHashFile = [exists |-> FALSE, hash |-> <<>>, newline |-> FALSE]
  /\ cHashFile0 = [exists |-> FALSE, hash |-> <<>>, newline |-> FALSE]
  /\ cReadPw = "unread"
  /\ cCopied = FALSE
  /\ cError = "none"

InitDebounceIdle ==
  /\ dNow = 0
  /\ dWatching = FALSE
  /\ dAutoSync = FALSE
  /\ dPending = {}
  /\ dTimers = {}
  /\ dHandle = 0
  /\ dLastEvent = 0
  /\ dBurstPushes = 0
  /\ dPushedAt = 0
  /\ dTrigger = "none"
  /\ dPushThrew = FALSE

InitTimersIdle ==
  /\ tNow = 0
  /\ tAutoSync = FALSE
  /\ tSyncTimers = {}
  /\ tCountdownTimers = {}
  /\ tSyncHandle = 0
  /\ tCountdownHandle = 0
  /\ tNextSyncTime = 0
  /\ tNextId = 0
  /\ tInFlight = 0
  /\ tRunning = FALSE
  /\ tLast = [outcome |-> "none", at |-> 0, next |-> 0]
  /\ tLateStart = FALSE

InitReentryIdle ==
  /\ rCalls = 0
  /\ rBefore = [lockFile |-> NoFile, isSyncing |-> FALSE, status |-> "pending"]
  /\ rAfter = [lockFile |-> NoFile, isSyncing |-> FALSE, status |-> "pending"]

InitSubdirIdle ==
  /\ kPlatform = "posix"
  /\ kSubdir = <<>>
  /\ kRoot = [up |-> 0 - 1, segs |-> <<>>]

InitConfiguredIdle ==
  /\ qUrl = ""
  /\ qSecret = "undefined"
  /\ qPc = "idle"
  /\ qReadUrl = ""
  /\ qAnswer = FALSE

InitStashIdle ==
  /\ hTree = [p \in {"a", "b"} |-> "clean"]
  /\ hStash = <<>>
  /\ hConflicted = FALSE
  /\ hPc = "idle"
  /\ hHasChanges = FALSE
  /\ hSetAside = FALSE
  /\ hPopTried = FALSE
  /\ hExit = "none"

InitMarkerIdle ==
  /\ nTree = [r \in Replicas |-> [exists |-> FALSE, ts |-> 0, by |-> "none"]]
  /\ nHead = [r \in Replicas |-> [exists |-> FALSE, ts |-> 0, by |-> "none"]]
  /\ nRemote = [exists |-> FALSE, ts |-> 0, by |-> "none"]
  /\ nAhead = [r \in Replicas |-> FALSE]
  /\ nPc = [r \in Replicas |-> "idle"]
  /\ nSkippedBy = [r \in Replicas |-> "none"]
  /\ nNow = 0

InitGateIdle ==
  /\ cGitService = FALSE
  /\ cExchanged = FALSE

NoStats == [copied |-> 0, skippedLocalNewer |-> 0, conflictCopies |-> 0,
            skippedConflictArtifacts |-> 0]

InitCopyIdle ==
  /\ wLocal = AbsentFile
  /\ wLocal0 = AbsentFile
  /\ wRepo = AbsentFile
  /\ wHead = AbsentBlob
  /\ wRemoteTip = AbsentBlob
  /\ wSnapshot = AbsentBlob
  /\ wStats = NoStats
  /\ wCopied = 0
  /\ wCommits = 0
  /\ wPushes = 0
  /\ wLast = "none"
  /\ wClock = 0
  /\ wIgnored = FALSE
  /\ wArtifactName = FALSE
  /\ wUnderSync = FALSE
  /\ wPc = "idle"

\* localStats?.size || 0, localStats?.mtime || new Date(0)
LocalSize(l) == IF l.exists THEN l.content.size ELSE 0
LocalMtime(l) == IF l.exists THEN l.mtime ELSE 0
\* git.show hands the blob over as a string decoded from UTF-8: one byte
\* of ASCII gives one code unit, a sequence of two or three bytes gives
\* one, a sequence of four gives two.  The lengths a blob can decode to:
DecodedLengths(c) == {n \in 0..c.size : 3 * n >= c.size}
\* Buffer.byteLength(content, 'binary') of git show origin/main:<file>:
\* latin1 counts one byte per code unit of the string
RemoteSize(r, units) == IF r.exists THEN units ELSE 0
\* git log -1 --format=%ct origin/main -- <file>, replaced by the deletion
\* time when the remote no longer has the file and a deletion is found
RemoteMtime(r, touched, deletedAt) ==
  IF ~r.exists /\ deletedAt # 0 THEN deletedAt ELSE touched

\* Math.abs(localSize - remoteSize) / Math.max(localSize, remoteSize) > 0.2
SizeDiffExceeds(localSize, remoteSize) ==
  /\ Max(localSize, remoteSize) > 0
  /\ 5 * Abs(localSize - remoteSize) > Max(localSize, remoteSize)

IsBinaryLike(ext) == ext \in binaryLikeExtensions

\* the winner: TRUE keeps the local file, FALSE takes the remote side
KeepLocal(l, r, remoteSize, remoteMtime, ext) ==
  IF ~l.exists THEN FALSE
  ELSE IF ~r.exists THEN LocalMtime(l) >= remoteMtime
  ELSE IF IsBinaryLike(ext)
    THEN IF SizeDiffExceeds(LocalSize(l), remoteSize)
           THEN LocalSize(l) >= remoteSize
           ELSE LocalMtime(l) >= remoteMtime
  ELSE LocalMtime(l) >= remoteMtime

\* contentEqual: only when both exist with equal sizes are the bytes
\* compared, the local ones with Buffer.from(remoteContent, 'binary').  A
\* string that lost bytes in decoding does not give the remote bytes back,
\* and no local file of Contents is the latin1 image of such a string.
ContentEqual(l, r, remoteSize) ==
  IF l.exists /\ r.exists /\ LocalSize(l) = remoteSize
    THEN remoteSize = r.content.size /\ l.content = r.content
    ELSE FALSE

\* if (remoteContent) { writeConflictCopyFromRemote(...) }: a string is
\* truthy when it is not empty
Truthy(content) == content.size > 0

\* one pass of the loop body over the path
MergeFile ==
  /\ mPc = "start"
  /\ mPc' = "done"
  /\ LET rm == RemoteMtime(mRemote, mRemoteTime, mDeletedAt)
         rs == RemoteSize(mRemote, mRemoteUnits)
         keep == KeepLocal(mLocal, mRemote, rs, rm, mExt)
     IN
     IF ~mLocal.exists /\ ~mRemote.exists
       THEN UNCHANGED <<mLocal, mKeepLocal, mConflict>>
       ELSE
         /\ mKeepLocal' = keep
         /\ IF ContentEqual(mLocal, mRemote, rs)
              THEN UNCHANGED <<mLocal, mConflict>>
            ELSE IF ~keep
              THEN \E copyOk \in BOOLEAN, checkoutOk \in BOOLEAN, unlinkOk \in BOOLEAN :
                     IF mLocal.exists /\ ~copyOk
                       THEN \* copyFileSync throws: the catch skips the path
                            UNCHANGED <<mLocal, mConflict>>
                       ELSE
                         /\ mConflict' = IF mLocal.exists
                                           THEN [exists |-> TRUE, content |-> mLocal.content]
                                           ELSE mConflict
                         /\ IF mRemote.exists
                              THEN mLocal' = IF checkoutOk
                                               THEN [exists |-> TRUE, content |-> mRemote.content,
                                                     mtime |-> MergeClock]
                                               ELSE mLocal
                              ELSE \* try { unlinkSync } catch { ignore }
                                   mLocal' = IF mLocal.exists /\ unlinkOk
                                               THEN AbsentFile
                                               ELSE mLocal
            ELSE IF mRemote.exists
              THEN /\ UNCHANGED mLocal
                   /\ mConflict' = IF Truthy(mRemote.content)
                                     THEN [exists |-> TRUE, content |-> mRemote.content]
                                     ELSE mConflict
              ELSE UNCHANGED <<mLocal, mConflict>>
  /\ UNCHANGED <<mExt, mLocal0, mBase, mRemote, mRemoteUnits, mRemoteTime, mDeletedAt>>

\* the versions the common commit can hold
BaseContents == {c \in Contents : c.size <= MaxBaseSize}

InitMerge ==
  /\ mExt \in Exts
  /\ mLocal \in {AbsentFile} \cup
       {[exists |-> TRUE, content |-> c, mtime |-> t] : c \in Contents, t \in MergeTimes}
  /\ mLocal0 = mLocal
  /\ mRemote \in {AbsentBlob} \cup {[exists |-> TRUE, content |-> c] : c \in Contents}
  /\ mRemoteUnits \in IF mRemote.exists THEN DecodedLengths(mRemote.content) ELSE {0}
  /\ mDeletedAt \in IF mRemote.exists THEN {0} ELSE {0} \cup MergeTimes
  \* a path the remote deleted was in the commit the deletion started from
  /\ mBase \in IF mDeletedAt # 0
                THEN {[exists |-> TRUE, content |-> c] : c \in BaseContents}
                ELSE {AbsentBlob} \cup {[exists |-> TRUE, content |-> c] : c \in BaseContents}
  /\ mRemoteTime \in IF mRemote.exists THEN MergeTimes ELSE {mDeletedAt}
  /\ mKeepLocal = FALSE
  /\ mConflict = AbsentBlob
  /\ mPc = "start"
  /\ InitLockIdle
  /\ InitCopyIdle
  /\ InitReplicasIdle
  /\ InitTailIdle
  /\ InitScopeIdle
  /\ InitFilterIdle
  /\ InitSetupIdle
  /\ InitDebounceIdle
  /\ InitTimersIdle
  /\ InitReentryIdle
  /\ InitSubdirIdle
  /\ InitConfiguredIdle
  /\ InitStashIdle
  /\ InitMarkerIdle
  /\ InitGateIdle

NextMerge == MergeFile /\ UNCHANGED <<lockVars, procVars, copyVars, replicaVars, tailVars, scopeVars, filterVars, setupVars, debounceVars, timerVars, reentryVars, subdirVars, configuredVars, stashVars, markerVars, gateVars>>

SpecMerge == InitMerge /\ [][NextMerge]_vars

\* the two versions of the path differ in their bytes (or one is missing)
MergeVersionsDiffer ==
  \/ mLocal0.exists # mRemote.exists
  \/ mLocal0.exists /\ mRemote.exists /\ mLocal0.content # mRemote.content

\* C3: after Smart Merge has handled a path whose two versions differ, the
\* version that lost is on disk as a conflict artifact: the local one when
\* the local file was replaced or deleted, the remote one when local won.
C3_NoSilentLoss ==
  (mPc = "done" /\ MergeVersionsDiffer) =>
    /\ (mLocal0.exists /\ (~mLocal.exists \/ mLocal.content # mLocal0.content))
         => (mConflict.exists /\ mConflict.content = mLocal0.content)
    /\ (mKeepLocal /\ mRemote.exists /\ mLocal0.exists)
         => (mConflict.exists /\ mConflict.content = mRemote.content)

\* C16: the winner Smart Merge chose for a path follows the stated rules:
\* a side that is alone wins, except that a remote deletion newer than the
\* local mtime wins; for a binary-like extension whose sizes differ by more
\* than a fifth of the larger one the larger file wins; in every other case
\* the more recently modified side wins.
C16_WinnerFollowsRules ==
  (mPc = "done" /\ (mLocal0.exists \/ mRemote.exists)) =>
    LET localBytes == LocalSize(mLocal0)
        remoteBytes == IF mRemote.exists THEN mRemote.content.size ELSE 0
        localTime == LocalMtime(mLocal0)
        remoteTime == RemoteMtime(mRemote, mRemoteTime, mDeletedAt)
        bySize == /\ IsBinaryLike(mExt)
                  /\ SizeDiffExceeds(localBytes, remoteBytes)
    IN
    /\ ~mLocal0.exists => ~mKeepLocal
    /\ (mLocal0.exists /\ ~mRemote.exists) => (mKeepLocal <=> ~(mDeletedAt > localTime))
    /\ (mLocal0.exists /\ mRemote.exists /\ bySize)
         => (mKeepLocal <=> localBytes > remoteBytes)
    /\ (mLocal0.exists /\ mRemote.exists /\ ~bySize)
         => /\ (localTime > remoteTime) => mKeepLocal
            /\ (remoteTime > localTime) => ~mKeepLocal

\* C30: for a path whose two compared versions are byte-identical, neither
\* Smart Merge nor the pull-time copy creates a conflict artifact, and the
\* path is left as it was, whatever the sizes and modification times say.
C30_NoArtifactForIdenticalBytes ==
  /\ (mPc = "done" /\ mLocal0.exists /\ mRemote.exists /\ mLocal0.content = mRemote.content)
       => (~mConflict.exists /\ mLocal = mLocal0)
  /\ (wPc = "done" /\ wLocal0.exists /\ wRepo.exists /\ wLocal0.content = wRepo.content)
       => (~wSnapshot.exists /\ wLocal = wLocal0)

\* the local file still has the bytes of the last synced commit
LocalUnchangedSinceSync ==
  mLocal0.exists /\ mBase.exists /\ mLocal0.content = mBase.content

\* C17: when the remote deleted the path after the local file was last
\* modified, the deletion wins and the local file is removed, and no
\* conflict artifact is written when the local file is unchanged since the
\* last sync.
C17_RemoteDeletionWins ==
  (mPc = "done" /\ mLocal0.exists /\ ~mRemote.exists /\ mDeletedAt > mLocal0.mtime) =>
    /\ ~mKeepLocal
    /\ ~mLocal.exists
    /\ LocalUnchangedSinceSync => ~mConflict.exists

(***************************************************************************)
(* The copy engine of SyncService.  mtimeMs has sub-millisecond            *)
(* resolution; a Date (stat.mtime, the argument of utimesSync) has not.    *)
(***************************************************************************)
Ms(n) == n * MsUnit
WTimes == {Ms(k * StepMs) + j : k \in 0..MaxStep, j \in 0..(MsUnit - 1)}

\* stat.mtime: the Date nearest to mtimeMs
DateOf(mtimeMs) == ((mtimeMs + (MsUnit \div 2)) \div MsUnit) * MsUnit

\* areFilesEqual(sourcePath, destPath, sourceStat, destStat)
AreFilesEqual_mtimeOnly(src, dst) == Abs(src.mtime - dst.mtime) < Ms(1)
AreFilesEqual(src, dst) ==
  IF src.content.size # dst.content.size THEN FALSE
  ELSE IF Abs(src.mtime - dst.mtime) < Ms(1) THEN TRUE
  ELSE src.content = dst.content

\* destStat.mtimeMs > sourceStat.mtimeMs + 1000
LocalIsNewer_never(src, dst) == FALSE
LocalIsNewer(src, dst) == dst.mtime > src.mtime + Ms(1000)

\* what copyFolderFromRepo does with one file of the mirror
PullDecision(src, dst, ignored, artifactName) ==
  IF ignored THEN "ignored"
  ELSE IF artifactName THEN "artifact"
  ELSE IF dst.exists /\ AreFilesEqual(src, dst) THEN "skip"
  ELSE IF dst.exists /\ LocalIsNewer(src, dst) THEN "keep"
  ELSE "copy"

\* fs.copyFileSync(src, dest); fs.utimesSync(dest, srcStat.atime, srcStat.mtime)
CopyWithTimes(src) ==
  [exists |-> TRUE, content |-> src.content, mtime |-> DateOf(src.mtime)]

\* writePulledConflictSnapshot: copy the mirror's file into .sync-conflicts
SnapshotOf_local(src, dst) == [exists |-> TRUE, content |-> dst.content]
SnapshotOf(src, dst) == [exists |-> TRUE, content |-> src.content]

\* if (entry.isDirectory()) { if (entry.name === '.sync') continue; ... }:
\* the files below a '.sync' directory are never visited
SkipsDirectory_none(underSync) == FALSE
SkipsDirectory(underSync) == underSync

\* copyFolderFromRepo, the body of its loop for one file entry of the mirror
PullCopyEntry ==
  /\ wPc = "start"
  /\ wPc' = "done"
  /\ LET d == IF SkipsDirectory(wUnderSync) THEN "ignored"
              ELSE PullDecision(wRepo, wLocal, wIgnored, wArtifactName) IN
       CASE d = "ignored" -> UNCHANGED <<wLocal, wSnapshot, wStats>>
         [] d = "artifact" ->
              /\ wStats' = [wStats EXCEPT !.skippedConflictArtifacts = @ + 1]
              /\ UNCHANGED <<wLocal, wSnapshot>>
         [] d = "skip" -> UNCHANGED <<wLocal, wSnapshot, wStats>>
         [] d = "keep" ->
              \E snapOk \in BOOLEAN :
                /\ wSnapshot' = IF snapOk THEN SnapshotOf(wRepo, wLocal) ELSE wSnapshot
                /\ wStats' = [wStats EXCEPT !.skippedLocalNewer = @ + 1,
                                            !.conflictCopies = IF snapOk THEN @ + 1 ELSE @]
                /\ UNCHANGED wLocal
         [] d = "copy" ->
              /\ wLocal' = CopyWithTimes(wRepo)
              /\ wStats' = [wStats EXCEPT !.copied = @ + 1]
              /\ UNCHANGED wSnapshot
  /\ UNCHANGED <<wLocal0, wRepo, wHead, wRemoteTip, wCopied, wCommits, wPushes, wLast,
                 wClock, wIgnored, wArtifactName, wUnderSync>>

Files == {[exists |-> TRUE, content |-> c, mtime |-> t] : c \in Contents, t \in WTimes}

InitPull ==
  /\ wRepo \in Files
  /\ wLocal \in {AbsentFile} \cup Files
  /\ wLocal0 = wLocal
  /\ wIgnored \in BOOLEAN
  /\ wArtifactName \in BOOLEAN
  /\ wUnderSync \in BOOLEAN
  /\ wHead = [exists |-> TRUE, content |-> wRepo.content]
  /\ wRemoteTip = wHead
  /\ wSnapshot = AbsentBlob
  /\ wStats = NoStats
  /\ wCopied = 0
  /\ wCommits = 0
  /\ wPushes = 0
  /\ wLast = "none"
  /\ wClock = MaxStep
  /\ wPc = "start"
  /\ InitLockIdle
  /\ InitMergeIdle
  /\ InitReplicasIdle
  /\ InitTailIdle
  /\ InitScopeIdle
  /\ InitFilterIdle
  /\ InitSetupIdle
  /\ InitDebounceIdle
  /\ InitTimersIdle
  /\ InitReentryIdle
  /\ InitSubdirIdle
  /\ InitConfiguredIdle
  /\ InitStashIdle
  /\ InitMarkerIdle
  /\ InitGateIdle

NextPull == PullCopyEntry /\ UNCHANGED <<lockVars, procVars, mergeVars, replicaVars, tailVars, scopeVars, filterVars, setupVars, debounceVars, timerVars, reentryVars, subdirVars, configuredVars, stashVars, markerVars, gateVars>>

SpecPull == InitPull /\ [][NextPull]_vars

\* the pull-time copy looked at the file: the filter lets it through and
\* its name is not that of a conflict artifact
PullConsidered == ~wIgnored /\ ~wArtifactName /\ ~wUnderSync
PullContentsDiffer == wLocal0.exists /\ wLocal0.content # wRepo.content
PullOverwrote == wLocal0.exists /\ wLocal.content # wLocal0.content
PullDeclined == wLocal0.exists /\ wLocal = wLocal0

C14_ArtifactsSkippedAndCounted ==
  (wPc = "done") =>
    /\ (wArtifactName \/ wUnderSync) => (wLocal = wLocal0 /\ ~wSnapshot.exists)
    /\ (wArtifactName /\ ~wUnderSync) => wStats.skippedConflictArtifacts = 1

\* C14 (amended): such a file is never brought into the working directory;
\* an artifact is counted in skippedConflictArtifacts exactly when it is
\* outside every '.sync' directory and the filter does not exclude its path
\* (the filter test comes first and skips without counting).
C14_ArtifactsNeverCopied ==
  (wPc = "done") =>
    /\ (wArtifactName \/ wUnderSync) =>
         /\ wLocal = wLocal0 /\ ~wSnapshot.exists
         /\ wStats.copied = 0 /\ wStats.skippedLocalNewer = 0
    /\ wStats.skippedConflictArtifacts =
         (IF wArtifactName /\ ~wUnderSync /\ ~wIgnored THEN 1 ELSE 0)
C14_Witness ==
  /\ wPc = "done" /\ wArtifactName /\ ~wIgnored /\ ~wUnderSync
  /\ wLocal0.exists /\ wLocal0.content # wRepo.content /\ wLocal = wLocal0
  /\ wStats.skippedConflictArtifacts = 1

\* what the pull-time copy compares: the two files as it found them
PullEqual ==
  /\ wLocal0.exists
  /\ wLocal0.content.size = wRepo.content.size
  /\ (Abs(wLocal0.mtime - wRepo.mtime) < MsUnit \/ wLocal0.content = wRepo.content)
PullLocalNewer == wLocal0.exists /\ wLocal0.mtime > wRepo.mtime + 1000 * MsUnit

ShouldCopy(src, dst, ignored) ==
  /\ ~ignored
  /\ src.exists
  /\ ~(dst.exists /\ dst.content.size = src.content.size /\ dst.mtime = src.mtime)

\* the mirror's file after copyFilesToSyncRepo
CopyToRepo_mirroring(src, dst, ignored) ==
  IF ~ignored /\ ~src.exists THEN AbsentFile
  ELSE IF ShouldCopy(src, dst, ignored) THEN CopyWithTimes(src) ELSE dst
CopyToRepo(src, dst, ignored) ==
  IF ShouldCopy(src, dst, ignored) THEN CopyWithTimes(src) ELSE dst

BlobOf(f) == [exists |-> f.exists, content |-> f.content]

\* git status after `git add -A`: isClean() when the tree equals HEAD
IsClean(tree, head) == BlobOf(tree) = head

\* GitService.commit: is a commit created?
CommitCreated_always(tree, head) == TRUE
CommitCreated(tree, head) == ~IsClean(tree, head)

PushDone == wLast \in {"push", "push2"}

\* a write to the file in the working directory
LocalEdit ==
  /\ wCommits < MaxCommits
  /\ \E c \in Contents, j \in 0..(MsUnit - 1) :
       /\ wLocal' = [exists |-> TRUE, content |-> c, mtime |-> Ms(wClock * StepMs) + j]
       /\ wLocal' # wLocal
  /\ wLast' = "edit"
  /\ UNCHANGED <<wLocal0, wRepo, wHead, wRemoteTip, wSnapshot, wStats, wCopied, wCommits,
                 wPushes, wClock, wIgnored, wArtifactName, wUnderSync, wPc>>

\* the file is removed from the working directory
LocalDelete ==
  /\ wCommits < MaxCommits
  /\ wLocal.exists
  /\ wLocal' = AbsentFile
  /\ wLast' = "edit"
  /\ UNCHANGED <<wLocal0, wRepo, wHead, wRemoteTip, wSnapshot, wStats, wCopied, wCommits,
                 wPushes, wClock, wIgnored, wArtifactName, wUnderSync, wPc>>

ClockTick ==
  /\ wClock < MaxStep
  /\ wClock' = wClock + 1
  /\ UNCHANGED <<wLocal, wLocal0, wRepo, wHead, wRemoteTip, wSnapshot, wStats, wCopied,
                 wCommits, wPushes, wLast, wIgnored, wArtifactName, wUnderSync, wPc>>

\* push() runs to its end: pull, copy, stage, commit, and git push if a
\* commit was made
Push ==
  /\ wCommits <= MaxCommits
  /\ LET tree == CopyToRepo(wLocal, wRepo, wIgnored)
         made == CommitCreated(tree, wHead) IN
       /\ wRepo' = tree
       /\ wCopied' = IF ShouldCopy(wLocal, wRepo, wIgnored) THEN 1 ELSE 0
       /\ wHead' = IF made THEN BlobOf(tree) ELSE wHead
       /\ wCommits' = IF made THEN wCommits + 1 ELSE wCommits
       /\ wRemoteTip' = IF made THEN BlobOf(tree) ELSE wRemoteTip
       /\ wPushes' = IF made THEN wPushes + 1 ELSE wPushes
  /\ wLast' = IF PushDone THEN "push2" ELSE "push"
  /\ UNCHANGED <<wLocal, wLocal0, wSnapshot, wStats, wClock, wIgnored, wArtifactName, wUnderSync, wPc>>

\* push() throws in gitService.pull: nothing was copied
PushThrowsInPull ==
  /\ wLast' = "pushfail"
  /\ UNCHANGED <<wLocal, wLocal0, wRepo, wHead, wRemoteTip, wSnapshot, wStats, wCopied,
                 wCommits, wPushes, wClock, wIgnored, wArtifactName, wUnderSync, wPc>>

\* push() throws in gitService.push: the commit stays in the local repository
PushThrowsInGitPush ==
  /\ wCommits <= MaxCommits
  /\ LET tree == CopyToRepo(wLocal, wRepo, wIgnored) IN
       /\ CommitCreated(tree, wHead)
       /\ wRepo' = tree
       /\ wCopied' = IF ShouldCopy(wLocal, wRepo, wIgnored) THEN 1 ELSE 0
       /\ wHead' = BlobOf(tree)
       /\ wCommits' = wCommits + 1
  /\ wLast' = "pushfail"
  /\ UNCHANGED <<wLocal, wLocal0, wRemoteTip, wPushes, wSnapshot, wStats, wClock, wIgnored,
                 wArtifactName, wUnderSync, wPc>>

InitPush ==
  /\ wLocal \in {AbsentFile} \cup {f \in Files : f.mtime < Ms(StepMs)}
  /\ wLocal0 = AbsentFile
  /\ wRepo = AbsentFile
  /\ wHead = AbsentBlob
  /\ wRemoteTip = AbsentBlob
  /\ wSnapshot = AbsentBlob
  /\ wStats = NoStats
  /\ wCopied = 0
  /\ wCommits = 0
  /\ wPushes = 0
  /\ wLast = "none"
  /\ wClock = 0
  /\ wIgnored \in BOOLEAN
  /\ wArtifactName = FALSE
  /\ wUnderSync = FALSE
  /\ wPc = "idle"
  /\ InitLockIdle
  /\ InitMergeIdle
  /\ InitReplicasIdle
  /\ InitTailIdle
  /\ InitScopeIdle
  /\ InitFilterIdle
  /\ InitSetupIdle
  /\ InitDebounceIdle
  /\ InitTimersIdle
  /\ InitReentryIdle
  /\ InitSubdirIdle
  /\ InitConfiguredIdle
  /\ InitStashIdle
  /\ InitMarkerIdle
  /\ InitGateIdle

NextPush ==
  /\ \/ LocalEdit
     \/ LocalDelete
     \/ ClockTick
     \/ Push
     \/ PushThrowsInPull
     \/ PushThrowsInGitPush
  /\ UNCHANGED <<lockVars, procVars, mergeVars, replicaVars, tailVars, scopeVars, filterVars, setupVars, debounceVars, timerVars, reentryVars, subdirVars, configuredVars, stashVars, markerVars, gateVars>>

SpecPush == InitPush /\ [][NextPush]_vars

\* C10: a push() that follows a completed push() with no local change in
\* between creates no commit and performs no git push: the local HEAD and
\* the remote tip stay as they are.
C10_SecondPushIsNoOp ==
  [][(PushDone /\ wLast' = "push2") =>
       /\ wCommits' = wCommits
       /\ wPushes' = wPushes
       /\ wHead' = wHead
       /\ wRemoteTip' = wRemoteTip]_vars
\* the second push has run after a first one that committed, and it copied
\* the file again (the mirror's mtime had lost its sub-millisecond part)
C10_Witness ==
  /\ wLast = "push2"
  /\ wCommits = 1 /\ wPushes = 1
  /\ wCopied = 1

\* C27: copyFilesToSyncRepo copies the file exactly when the mirror's copy
\* is missing or differs in size or mtime, and a copy carries the source's
\* timestamps, so that a second pass with no change in between copies nothing.
C27_SecondCopyCopiesNothing ==
  [][(PushDone /\ wLast' = "push2") =>
       /\ (wCopied' = 1) = ShouldCopy(wLocal, wRepo, wIgnored)
       /\ wCopied' = 0]_vars

(***************************************************************************)
(* SpecReplicas: two machines share the remote.  Each edits its copy of    *)
(* one file and runs sync(); a sync() runs from acquireLock to releaseLock *)
(* without failure and without another sync() in between.                  *)
(***************************************************************************)
ReplicaContents == {c \in Contents : c.size <= MaxReplicaSize}
TimeAt(k, j) == Ms(k * StepMs) + j

\* sync() of replica r, its git pull checking files out at time t:
\* gitService.pull, copyFilesFromSyncRepo, pushWithoutPull
SyncResult(r, t) ==
  LET pulled == eRemote # eHead[r]
      head1 == IF pulled THEN eRemote ELSE eHead[r]
      repo1 == IF pulled
                 THEN [exists |-> TRUE, content |-> eRemote.content, mtime |-> t]
                 ELSE eRepo[r]
      d == PullDecision(repo1, eLocal[r], FALSE, FALSE)
      local1 == IF d = "copy" THEN CopyWithTimes(repo1) ELSE eLocal[r]
      repo2 == CopyToRepo(local1, repo1, FALSE)
      made == CommitCreated(repo2, head1)
  IN [local |-> local1,
      repo |-> repo2,
      head |-> IF made THEN BlobOf(repo2) ELSE head1,
      remote |-> IF made THEN BlobOf(repo2) ELSE eRemote]

ReplicaSync(r) ==
  \E j \in 0..(MsUnit - 1) :
    LET res == SyncResult(r, TimeAt(eClock, j)) IN
      /\ eLocal' = [eLocal EXCEPT ![r] = res.local]
      /\ eRepo' = [eRepo EXCEPT ![r] = res.repo]
      /\ eHead' = [eHead EXCEPT ![r] = res.head]
      /\ eRemote' = res.remote
      /\ UNCHANGED <<eClock, eEdits, eStopped>>

\* push() of replica r on its own (the debounced watcher, the push
\* command): gitService.pull, copyFilesToSyncRepo, stage, commit, git push;
\* nothing is copied into the working directory
PushResult(r, t) ==
  LET pulled == eRemote # eHead[r]
      head1 == IF pulled THEN eRemote ELSE eHead[r]
      repo1 == IF pulled
                 THEN [exists |-> TRUE, content |-> eRemote.content, mtime |-> t]
                 ELSE eRepo[r]
      repo2 == CopyToRepo(eLocal[r], repo1, FALSE)
      made == CommitCreated(repo2, head1)
  IN [local |-> eLocal[r],
      repo |-> repo2,
      head |-> IF made THEN BlobOf(repo2) ELSE head1,
      remote |-> IF made THEN BlobOf(repo2) ELSE eRemote]

ReplicaPush(r) ==
  \E j \in 0..(MsUnit - 1) :
    LET res == PushResult(r, TimeAt(eClock, j)) IN
      /\ eRepo' = [eRepo EXCEPT ![r] = res.repo]
      /\ eHead' = [eHead EXCEPT ![r] = res.head]
      /\ eRemote' = res.remote
      /\ UNCHANGED <<eLocal, eClock, eEdits, eStopped>>

\* the user of replica r writes the file
ReplicaEdit(r) ==
  /\ ~eStopped
  /\ eEdits < MaxEdits
  /\ \E c \in ReplicaContents, j \in 0..(MsUnit - 1) :
       /\ c # eLocal[r].content
       /\ eLocal' = [eLocal EXCEPT ![r] =
                       [exists |-> TRUE, content |-> c, mtime |-> TimeAt(eClock, j)]]
  /\ eEdits' = eEdits + 1
  /\ UNCHANGED <<eRepo, eHead, eRemote, eClock, eStopped>>

StopEditing ==
  /\ ~eStopped
  /\ eStopped' = TRUE
  /\ UNCHANGED <<eLocal, eRepo, eHead, eRemote, eClock, eEdits>>

ReplicaTick ==
  /\ eClock < MaxStep
  /\ eClock' = eClock + 1
  /\ UNCHANGED <<eLocal, eRepo, eHead, eRemote, eEdits, eStopped>>

\* the replicas start in sync: each has pulled and copied the same version
InitReplicas ==
  /\ \E c \in ReplicaContents :
       /\ eRemote = [exists |-> TRUE, content |-> c]
       /\ eHead = [r \in Replicas |-> eRemote]
       /\ eRepo \in [Replicas -> {[exists |-> TRUE, content |-> c, mtime |-> TimeAt(0, j)] :
                                    j \in 0..(MsUnit - 1)}]
       /\ eLocal = [r \in Replicas |-> CopyWithTimes(eRepo[r])]
  /\ eClock = 0
  /\ eEdits = 0
  /\ eStopped = FALSE
  /\ InitLockIdle
  /\ InitMergeIdle
  /\ InitCopyIdle
  /\ InitTailIdle
  /\ InitScopeIdle
  /\ InitFilterIdle
  /\ InitSetupIdle
  /\ InitDebounceIdle
  /\ InitTimersIdle
  /\ InitReentryIdle
  /\ InitSubdirIdle
  /\ InitConfiguredIdle
  /\ InitStashIdle
  /\ InitMarkerIdle
  /\ InitGateIdle

NextReplicas ==
  /\ \/ \E r \in Replicas : ReplicaSync(r)
     \/ \E r \in Replicas : ReplicaPush(r)
     \/ \E r \in Replicas : ReplicaEdit(r)
     \/ StopEditing
     \/ ReplicaTick
  /\ UNCHANGED <<lockVars, procVars, mergeVars, copyVars, tailVars, scopeVars, filterVars, setupVars, debounceVars, timerVars, reentryVars, subdirVars, configuredVars, stashVars, markerVars, gateVars>>

SpecReplicas == InitReplicas /\ [][NextReplicas]_vars

\* no sync() of any replica, whenever it runs, changes anything any more
Settled ==
  \A r \in Replicas : \A k \in eClock..MaxStep, j \in 0..(MsUnit - 1) :
    SyncResult(r, TimeAt(k, j)) =
      [local |-> eLocal[r], repo |-> eRepo[r], head |-> eHead[r], remote |-> eRemote]

Consistent ==
  \A r \in Replicas : eLocal[r].exists /\ eLocal[r].content = eRemote.content

\* C5: once the replicas have stopped editing and keep running sync(), every
\* working directory comes to hold the content of the remote tip.  The syncs
\* of a settled state change nothing for ever, so a settled state reached
\* after the edits stopped must already be consistent.
C5_EventualConsistency == (eStopped /\ Settled) => Consistent

\* replica r has not touched its file since its last sync
UnmodifiedSinceSync(r) ==
  /\ eLocal[r].exists
  /\ eLocal[r].content = eHead[r].content
  /\ eRepo[r].content = eHead[r].content

\* C36: a push() of a replica that has not modified the file since its
\* last sync, while the remote holds a newer version pushed by the other
\* replica, leaves that version in the mirror and on the remote.
C36_PushKeepsOtherEdit ==
  \A r \in Replicas : \A j \in 0..(MsUnit - 1) :
    (UnmodifiedSinceSync(r) /\ eRemote # eHead[r]) =>
      LET res == PushResult(r, TimeAt(eClock, j)) IN
        /\ res.remote = eRemote
        /\ res.repo.content = eRemote.content

(***************************************************************************)
(* SpecConflict: sync(), push() or pull() calls gitService.pull, the pull  *)
(* hits a conflict and runs handleSmartMerge; every git command of Smart   *)
(* Merge and of the rest of the operation may fail.                        *)
(***************************************************************************)
Callers == {"sync", "push", "pull"}

\* the state the operation shows when it starts
StartStatus(caller) == IF caller = "push" THEN "pushing" ELSE "pulling"

TailUnchanged == UNCHANGED <<sCaller, sForced>>

\* git checkout origin/main -- file, with .catch(e => log)
MergeCheckout ==
  /\ sPc = "checkout"
  /\ \E ok \in BOOLEAN :
       sFailed' = IF ok THEN sFailed ELSE sFailed \cup {"checkout"}
  /\ sPc' = "stage"
  /\ UNCHANGED <<sPushCalls, sRetryPulls, sThrown, sStatus, sMergePushed>>
  /\ UNCHANGED sArtifact
  /\ TailUnchanged

\* await this.git.add('-A'): a failure rejects handleSmartMerge
MergeStage ==
  /\ sPc = "stage"
  /\ \E ok \in BOOLEAN :
       /\ sFailed' = IF ok THEN sFailed ELSE sFailed \cup {"stage"}
       /\ sPc' = IF ok THEN "commit" ELSE "threw"
       /\ sArtifact' = IF ok /\ sArtifact = "written" THEN "staged" ELSE sArtifact
  /\ UNCHANGED <<sPushCalls, sRetryPulls, sThrown, sStatus, sMergePushed>>
  /\ TailUnchanged

\* this.git.commit(...).catch(e => `...`)
MergeCommit ==
  /\ sPc = "commit"
  /\ \E ok \in BOOLEAN :
       /\ sFailed' = IF ok THEN sFailed ELSE sFailed \cup {"commit"}
       /\ sArtifact' = IF ok /\ sArtifact = "staged" THEN "committed" ELSE sArtifact
  /\ sPc' = "push"
  /\ UNCHANGED <<sPushCalls, sRetryPulls, sThrown, sStatus, sMergePushed>>
  /\ TailUnchanged

\* this.git.push('origin', 'main'): on failure the catch handler retries
MergePush ==
  /\ sPc = "push"
  /\ sPushCalls' = sPushCalls + 1
  /\ \E ok \in BOOLEAN :
       /\ sFailed' = IF ok THEN sFailed ELSE sFailed \cup {"push"}
       /\ sPc' = IF ok THEN "returned" ELSE "retry_pull"
       /\ sMergePushed' = (ok /\ "commit" \notin sFailed)
       /\ sArtifact' = IF ok /\ sArtifact = "committed" THEN "pushed" ELSE sArtifact
  /\ UNCHANGED <<sRetryPulls, sThrown, sStatus>>
  /\ TailUnchanged

\* this.git.pull('origin', 'main', { '--rebase': 'false' }).catch(() => { })
MergeRetryPull ==
  /\ sPc = "retry_pull"
  /\ sRetryPulls' = sRetryPulls + 1
  /\ \E ok \in BOOLEAN :
       sFailed' = IF ok THEN sFailed ELSE sFailed \cup {"retry_pull"}
  /\ sPc' = "retry_push"
  /\ UNCHANGED <<sPushCalls, sThrown, sStatus, sMergePushed>>
  /\ UNCHANGED sArtifact
  /\ TailUnchanged

\* return await this.git.push('origin', 'main').catch(e2 => `...`)
MergeRetryPush ==
  /\ sPc = "retry_push"
  /\ sPushCalls' = sPushCalls + 1
  /\ \E ok \in BOOLEAN :
       /\ sFailed' = IF ok THEN sFailed ELSE sFailed \cup {"retry_push"}
       /\ sMergePushed' = (ok /\ "commit" \notin sFailed)
       /\ sArtifact' = IF ok /\ sArtifact = "committed" THEN "pushed" ELSE sArtifact
  /\ sPc' = "returned"
  /\ UNCHANGED <<sRetryPulls, sThrown, sStatus>>
  /\ TailUnchanged

\* gitService.pull returned: the operation goes on (copy, stage, commit,
\* push as the caller requires) and ends with status Synced
OperationCompletes ==
  /\ sPc = "returned"
  /\ sStatus' = "synced"
  /\ sPc' = "done"
  /\ UNCHANGED <<sFailed, sPushCalls, sRetryPulls, sThrown, sMergePushed>>
  /\ UNCHANGED sArtifact
  /\ TailUnchanged

\* a later step of the operation throws: catch sets Error and rethrows
OperationFailsLater ==
  /\ sPc = "returned"
  /\ sFailed' = sFailed \cup {"later"}
  /\ sStatus' = "error"
  /\ sThrown' = TRUE
  /\ sPc' = "done"
  /\ UNCHANGED <<sPushCalls, sRetryPulls, sMergePushed>>
  /\ UNCHANGED sArtifact
  /\ TailUnchanged

\* gitService.pull rejected: catch sets Error and rethrows
OperationCatches ==
  /\ sPc = "threw"
  /\ sStatus' = "error"
  /\ sThrown' = TRUE
  /\ sPc' = "done"
  /\ UNCHANGED <<sFailed, sPushCalls, sRetryPulls, sMergePushed>>
  /\ UNCHANGED sArtifact
  /\ TailUnchanged

InitConflict ==
  /\ sCaller \in Callers
  /\ sPc \in {"checkout", "stage"}
  /\ sFailed = {}
  /\ sPushCalls = 0
  /\ sRetryPulls = 0
  /\ sForced = FALSE
  /\ sThrown = FALSE
  /\ sStatus = StartStatus(sCaller)
  /\ sMergePushed = FALSE
  /\ sArtifact \in {"none", "written"}
  /\ InitLockIdle
  /\ InitMergeIdle
  /\ InitCopyIdle
  /\ InitReplicasIdle
  /\ InitScopeIdle
  /\ InitFilterIdle
  /\ InitSetupIdle
  /\ InitDebounceIdle
  /\ InitTimersIdle
  /\ InitReentryIdle
  /\ InitSubdirIdle
  /\ InitConfiguredIdle
  /\ InitStashIdle
  /\ InitMarkerIdle
  /\ InitGateIdle

NextConflict ==
  /\ \/ MergeCheckout
     \/ MergeStage
     \/ MergeCommit
     \/ MergePush
     \/ MergeRetryPull
     \/ MergeRetryPush
     \/ OperationCompletes
     \/ OperationFailsLater
     \/ OperationCatches
  /\ UNCHANGED <<lockVars, procVars, mergeVars, copyVars, replicaVars, scopeVars, filterVars, setupVars, debounceVars, timerVars, reentryVars, subdirVars, configuredVars, stashVars, markerVars, gateVars>>

SpecConflict == InitConflict /\ [][NextConflict]_vars

\* C11: an operation in which any git command failed ends with status Error
\* and rejects.
C11_FailuresSurface ==
  (sPc = "done" /\ sFailed # {}) => (sStatus = "error" /\ sThrown)

\* C15: a conflict artifact written by Smart Merge is never staged,
\* committed or pushed.
C15_ArtifactsStayOutOfGit == sArtifact \in {"none", "written"}

\* C18: Smart Merge pushes at most twice and pulls again at most once, a
\* failed first push is followed by exactly one pull-then-push retry, no
\* push is forced, and a failed retry push makes the operation reject with
\* status Error.
C18_RetryThenSurface ==
  (sPc = "done") =>
    /\ sPushCalls <= 2 /\ sRetryPulls <= 1 /\ ~sForced
    /\ ("push" \in sFailed) => (sRetryPulls = 1 /\ sPushCalls = 2)
    /\ ("retry_push" \in sFailed) => (sThrown /\ sStatus = "error")

(***************************************************************************)
(* SpecScope: the user ticks and unticks managed folders in the side       *)
(* panel; then pull() and push() copy between the working directory and    *)
(* the mirror.  A folder stands for the files below it.                    *)
(***************************************************************************)
DefaultFolders == {"knowledge", "brain", "conversations", "skills", "annotations"}
\* "scratch" is a top-level folder that is not among the managed ones
TopFolders == DefaultFolders \cup {"scratch"}

\* SidePanelProvider.handleFolderToggle
ToggleFolder ==
  /\ gPc = "start"
  /\ \E folder \in DefaultFolders, enabled \in BOOLEAN :
       gFolders' = IF enabled THEN gFolders \cup {folder} ELSE gFolders \ {folder}
  /\ UNCHANGED <<gLocal, gMirror, gCopied, gWritten, gPc>>

\* the folders copyFilesFromSyncRepo copies from the mirror
PullFolders(folders) == IF folders # {} THEN folders ELSE DefaultFolders

\* the folders getFilesToSync walks: '' is the whole of geminiPath
WalkedFolders(folders) == IF folders # {} THEN folders ELSE TopFolders

\* copyFilesFromSyncRepo
ScopePull ==
  /\ gPc = "start"
  /\ gPc' = "pulled"
  /\ gWritten' = gMirror \cap PullFolders(gFolders)
  /\ gLocal' = gLocal \cup gWritten'
  /\ UNCHANGED <<gFolders, gMirror, gCopied>>

\* copyFilesToSyncRepo
ScopePush ==
  /\ gPc \in {"start", "pulled"}
  /\ gPc' = "done"
  /\ gCopied' = gLocal \cap WalkedFolders(gFolders)
  /\ gMirror' = gMirror \cup gCopied'
  /\ UNCHANGED <<gFolders, gLocal, gWritten>>

FewFolders == {fs \in SUBSET TopFolders : Cardinality(fs) <= MaxScopeFiles}

InitScope ==
  /\ gFolders = DefaultFolders
  /\ gLocal \in FewFolders
  /\ gMirror \in FewFolders
  /\ gCopied = {}
  /\ gWritten = {}
  /\ gPc = "start"
  /\ InitLockIdle
  /\ InitMergeIdle
  /\ InitCopyIdle
  /\ InitReplicasIdle
  /\ InitTailIdle
  /\ InitFilterIdle
  /\ InitSetupIdle
  /\ InitDebounceIdle
  /\ InitTimersIdle
  /\ InitReentryIdle
  /\ InitSubdirIdle
  /\ InitConfiguredIdle
  /\ InitStashIdle
  /\ InitMarkerIdle
  /\ InitGateIdle

NextScope ==
  /\ \/ ToggleFolder
     \/ ScopePull
     \/ ScopePush
  /\ UNCHANGED <<lockVars, procVars, mergeVars, copyVars, replicaVars, tailVars, filterVars, setupVars, debounceVars, timerVars, reentryVars, subdirVars, configuredVars, stashVars, markerVars, gateVars>>

SpecScope == InitScope /\ [][NextScope]_vars

\* C12: whatever the configured set is, the empty set included, every file
\* copied into the mirror or written to the working directory lies under a
\* configured managed folder.
C12_ScopeIsTotal == (gCopied \cup gWritten) \subseteq gFolders

(***************************************************************************)
(* SpecFilter: FilterService.shouldIgnore.  The rules are evaluated by the *)
(* `ignore` package with .gitignore semantics: the last rule that matches  *)
(* a path decides, and a rule that starts with '!' re-includes the path.   *)
(***************************************************************************)
FilterPaths == {"oauth_creds.json", "keys/id.key", "brain/note.md"}
Globs == {"oauth_creds.json", "**/*.key", "**/*.md"}
\* a rule is a glob, negated when written with a leading '!'
Rules == [glob : Globs, negated : BOOLEAN]

\* the built-in rules that concern the paths above
DEFAULT_EXCLUDES ==
  <<[glob |-> "oauth_creds.json", negated |-> FALSE],
    [glob |-> "**/*.key", negated |-> FALSE]>>

GlobMatches(glob, path) ==
  \/ glob = "oauth_creds.json" /\ path = "oauth_creds.json"
  \/ glob = "**/*.key" /\ path = "keys/id.key"
  \/ glob = "**/*.md" /\ path = "brain/note.md"

\* ig.ignores(path) for the rules in the order they were added
RECURSIVE Ignores(_, _, _)
Ignores(rules, path, soFar) ==
  IF rules = <<>> THEN soFar
  ELSE Ignores(Tail(rules), path,
               IF GlobMatches(Head(rules).glob, path) THEN ~Head(rules).negated ELSE soFar)

\* the rules of a FilterService: ig.add(DEFAULT_EXCLUDES), ig.add(customPatterns),
\* loadIgnoreFile()
AllRules(custom, ignoreLines) == DEFAULT_EXCLUDES \o custom \o ignoreLines

ShouldIgnore ==
  /\ fPc = "start"
  /\ fPc' = "done"
  /\ fIgnored' = Ignores(AllRules(fCustom, fIgnoreLines), fPath, FALSE)
  /\ UNCHANGED <<fPath, fCustom, fIgnoreLines>>

RuleLists(n) == UNION {[1..k -> Rules] : k \in 0..n}

InitFilter ==
  /\ fPath \in FilterPaths
  /\ fCustom \in RuleLists(MaxCustomPatterns)
  /\ fIgnoreLines \in RuleLists(MaxIgnoreLines)
  /\ fIgnored = FALSE
  /\ fPc = "start"
  /\ InitLockIdle
  /\ InitMergeIdle
  /\ InitCopyIdle
  /\ InitReplicasIdle
  /\ InitTailIdle
  /\ InitScopeIdle
  /\ InitSetupIdle
  /\ InitDebounceIdle
  /\ InitTimersIdle
  /\ InitReentryIdle
  /\ InitSubdirIdle
  /\ InitConfiguredIdle
  /\ InitStashIdle
  /\ InitMarkerIdle
  /\ InitGateIdle

NextFilter ==
  /\ ShouldIgnore
  /\ UNCHANGED <<lockVars, procVars, mergeVars, copyVars, replicaVars, tailVars, scopeVars,
                 setupVars, debounceVars, timerVars, reentryVars, subdirVars, configuredVars, stashVars, markerVars, gateVars>>

SpecFilter == InitFilter /\ [][NextFilter]_vars

\* C13: a path that a built-in pattern matches is excluded whatever the
\* user patterns and the ignore file contain.
C13_BuiltinsAlwaysExclude ==
  (fPc = "done" /\ Ignores(DEFAULT_EXCLUDES, fPath, FALSE)) => fIgnored

(***************************************************************************)
(* The configuration attempt (configureRepository of the command palette,  *)
(* handleSaveConfig of the side panel) and initialize(), which both of     *)
(* them and activate() call.  The stored configuration is the repository   *)
(* URL of the settings, the token and the sync password of ConfigService;  *)
(* the file system accepts the writes of ensureSyncPassword.               *)
(***************************************************************************)
Entries == {"configureRepository", "handleSaveConfig", "activate"}
Passwords == {"pw1", "pw2"}
NothingStored == [url |-> FALSE, token |-> FALSE, password |-> "none"]

\* crypto.createHash('sha256').update(password).digest('hex'): different
\* passwords of Passwords have different digests
Sha256(p) == <<"sha256", p>>
NoHashFile == [exists |-> FALSE, hash |-> <<>>, newline |-> FALSE]
\* the hex digest as a text, and `${hash}\n`
HashText(h) == [exists |-> TRUE, hash |-> h, newline |-> FALSE]
HashLine(h) == [exists |-> TRUE, hash |-> h, newline |-> TRUE]
\* readFileSync(passwordFile, 'utf8').trim()
Trim_none(f) == f
Trim(f) == [f EXCEPT !.newline = FALSE]

\* ConfigService.saveSyncPassword, deleteSyncPassword
SaveSyncPassword(s, p) == [s EXCEPT !.password = p]
DeleteSyncPassword(s) == [s EXCEPT !.password = "none"]

\* a rejected promise inside the try block, or inside initialize()
Throws(e) ==
  /\ cError' = e
  /\ cPc' = "catch"

\* tempGitService.verifyAccess(repoUrl, token): git ls-remote
VerifyAccess ==
  /\ cPc = "verify"
  /\ \E ok \in BOOLEAN :
       IF ok THEN cPc' = "save" /\ UNCHANGED cError
             ELSE Throws("access")
  /\ UNCHANGED <<cEntry, cStore, cEntered, cEnabled, cRepo, cUrl, cOrigin, cHashFile,
                 cHashFile0, cReadPw, cCopied>>

\* setRepositoryUrl, saveCredentials, saveSyncPassword, in this order; each
\* of them can reject
SaveConfiguration ==
  /\ cPc = "save"
  /\ \E reached \in {"none", "url", "token", "password"} :
       LET withUrl == [cStore EXCEPT !.url = TRUE]
           withToken == [withUrl EXCEPT !.token = TRUE]
       IN
       /\ cStore' = CASE reached = "none" -> cStore
                      [] reached = "url" -> withUrl
                      [] reached = "token" -> withToken
                      [] reached = "password" -> SaveSyncPassword(withToken, cEntered)
       /\ IF reached = "password"
            THEN cPc' = "initialize" /\ UNCHANGED cError
            ELSE Throws("save")
  /\ UNCHANGED <<cEntry, cEntered, cEnabled, cRepo, cUrl, cOrigin, cHashFile, cHashFile0,
                 cReadPw, cCopied>>

\* A repository URL: scheme, credentials in front of the host, port behind
\* it, the path without its .git ending, and whether it has that ending.
NoUrl == <<>>
Url(scheme, cred, port, path, dotGit) ==
  [scheme |-> scheme, cred |-> cred, host |-> "host", port |-> port, path |-> path,
   dotGit |-> dotGit]
\* what validateGitRepoUrl lets through; git@host:path has no port
RepoUrls ==
  {Url(sch, "", port, "user/repo", g) :
     sch \in {"https", "http"}, port \in {"", ":8443"}, g \in BOOLEAN}
  \cup {Url("git@", "", "", "user/repo", g) : g \in BOOLEAN}

\* https://host/path -> https://token@host/path, git@host:path ->
\* https://token@host/path, anything else unchanged
BuildAuthenticatedUrl(url) ==
  CASE url.scheme = "https" -> [url EXCEPT !.cred = "token"]
    [] url.scheme = "git@" -> [url EXCEPT !.scheme = "https", !.cred = "token"]
    [] OTHER -> url

\* normalizeRepoIdentity: hostname (new URL(...).hostname has no port) and
\* the path without slashes at its ends and without .git
NormalizeRepoIdentity(url) == [host |-> url.host, path |-> url.path]
\* `https://${identity.host}/${identity.path}.git`
GetCleanRemoteUrl(url) ==
  LET identity == NormalizeRepoIdentity(url)
  IN [scheme |-> "https", cred |-> "", host |-> identity.host, port |-> "",
      path |-> identity.path, dotGit |-> TRUE]

\* the origin that ensureOriginMatches(remoteUrl) leaves
EnsureOriginMatches(originUrl, remoteUrl) ==
  LET cleanUrl == GetCleanRemoteUrl(remoteUrl)
  IN IF originUrl = NoUrl THEN cleanUrl
     ELSE IF NormalizeRepoIdentity(originUrl) # NormalizeRepoIdentity(remoteUrl)
             \/ originUrl # cleanUrl
       THEN cleanUrl
     ELSE originUrl

\* initialize() up to the end of gitService.initializeRepository.  A
\* directory that is no repository yet gets its origin from
\* clone(authUrl) or addRemote('origin', authUrl); ensureOriginMatches, the
\* last call, writes the clean URL.  "early" rejects before the origin is
\* written, "late" between that and the end of ensureOriginMatches.
InitializeRepository ==
  /\ cPc = "initialize"
  /\ IF ~cStore.url \/ ~cStore.token
       THEN /\ Throws("not_configured")
            /\ UNCHANGED <<cRepo, cOrigin>>
       ELSE \E outcome \in {"early", "late", "ok"} :
              LET written == IF cRepo = "repo" THEN cOrigin ELSE BuildAuthenticatedUrl(cUrl)
              IN
              /\ cRepo' = IF outcome = "early" THEN cRepo ELSE "repo"
              /\ cOrigin' = CASE outcome = "early" -> cOrigin
                              [] outcome = "late" -> written
                              [] outcome = "ok" -> EnsureOriginMatches(written, cUrl)
              /\ IF outcome = "ok"
                   THEN cPc' = "password" /\ UNCHANGED cError
                   ELSE Throws("git")
  /\ UNCHANGED <<cEntry, cStore, cEntered, cEnabled, cUrl, cHashFile, cHashFile0, cReadPw,
                 cCopied>>

EnsureSyncPassword ==
  /\ cPc = "password"
  /\ IF ~cEnabled
       THEN /\ cPc' = "copy"
            /\ UNCHANGED <<cError, cHashFile, cReadPw>>
       ELSE
         /\ cReadPw' = cStore.password
         /\ IF cStore.password = "none"
              THEN Throws("password_unset") /\ UNCHANGED cHashFile
            ELSE IF cHashFile.exists
              THEN /\ UNCHANGED cHashFile
                   /\ IF Trim(cHashFile) # HashText(Sha256(cStore.password))
                        THEN Throws("password_mismatch")
                        ELSE cPc' = "copy" /\ UNCHANGED cError
            ELSE /\ cHashFile' = HashLine(Sha256(cStore.password))
                 /\ cPc' = "copy"
                 /\ UNCHANGED cError
  /\ UNCHANGED <<cEntry, cStore, cEntered, cEnabled, cRepo, cUrl, cOrigin, cHashFile0,
                 cCopied>>

\* await this.copyFilesToSyncRepo(), then the status update
CopyInitialFiles ==
  /\ cPc = "copy"
  /\ \E ok \in BOOLEAN :
       IF ok THEN cCopied' = TRUE /\ cPc' = "start" /\ UNCHANGED cError
             ELSE Throws("copy") /\ UNCHANGED cCopied
  /\ UNCHANGED <<cEntry, cStore, cEntered, cEnabled, cRepo, cUrl, cOrigin, cHashFile,
                 cHashFile0, cReadPw>>

\* what follows initialize() inside the try block: the watcher, the timer,
\* the panel update
StartServices ==
  /\ cPc = "start"
  /\ \E ok \in BOOLEAN :
       IF ok THEN cPc' = "done" /\ UNCHANGED cError
             ELSE Throws("start")
  /\ UNCHANGED <<cEntry, cStore, cEntered, cEnabled, cRepo, cUrl, cOrigin, cHashFile,
                 cHashFile0, cReadPw, cCopied>>

\* the catch block: the two configuration handlers delete the password,
\* the token and the URL; activate() only reports the error
CatchError ==
  /\ cPc = "catch"
  /\ cPc' = "failed"
  /\ cStore' = IF cEntry = "activate"
                 THEN cStore
                 ELSE [DeleteSyncPassword(cStore) EXCEPT !.token = FALSE, !.url = FALSE]
  /\ UNCHANGED <<cEntry, cEntered, cEnabled, cRepo, cUrl, cOrigin, cHashFile, cHashFile0,
                 cReadPw, cCopied, cError>>

InitSetup ==
  /\ cEntry \in Entries
  /\ cStore \in {NothingStored} \cup
       {[url |-> TRUE, token |-> TRUE, password |-> p] : p \in {"none"} \cup Passwords}
  /\ (cEntry = "activate") => (cStore.url /\ cStore.token)
  /\ cEntered \in IF cEntry = "activate" THEN {"none"} ELSE Passwords
  /\ cEnabled \in BOOLEAN
  /\ cRepo \in {"empty", "files", "repo"}
  /\ cUrl \in RepoUrls
  \* an existing repository has no remote, the remote of another
  \* repository, or the remote of this one
  /\ cOrigin \in IF cRepo = "repo"
                  THEN {NoUrl, Url("https", "", "", "user/other", TRUE), GetCleanRemoteUrl(cUrl)}
                  ELSE {NoUrl}
  /\ cHashFile \in {NoHashFile} \cup
       {[exists |-> TRUE, hash |-> Sha256(p), newline |-> b] : p \in Passwords, b \in BOOLEAN}
  /\ cHashFile0 = cHashFile
  /\ cReadPw = "unread"
  /\ cCopied = FALSE
  /\ cError = "none"
  /\ cPc = IF cEntry = "activate" THEN "initialize" ELSE "verify"
  /\ InitLockIdle
  /\ InitMergeIdle
  /\ InitCopyIdle
  /\ InitReplicasIdle
  /\ InitTailIdle
  /\ InitScopeIdle
  /\ InitFilterIdle
  /\ InitDebounceIdle
  /\ InitTimersIdle
  /\ InitReentryIdle
  /\ InitSubdirIdle
  /\ InitConfiguredIdle
  /\ InitStashIdle
  /\ InitMarkerIdle
  /\ InitGateIdle

\* this.gitService = new GitService(syncRepoPath) comes before
\* initializeRepository and ensureSyncPassword, and no failure resets it
GitServiceCreated ==
  /\ cGitService' = (cGitService \/ (cStore.url /\ cStore.token))
  /\ UNCHANGED cExchanged

\* sync(), push() or pull() after the attempt has ended, from the interval
\* timer, the watcher or a command: if (!this.gitService) throw, else git
\* pull, copy, commit, push
LaterOperation ==
  /\ cPc \in {"failed", "done"}
  /\ ~cExchanged
  /\ cExchanged' = cGitService
  /\ UNCHANGED <<cGitService, setupVars>>

NextSetup ==
  /\ \/ VerifyAccess /\ UNCHANGED gateVars
     \/ SaveConfiguration /\ UNCHANGED gateVars
     \/ InitializeRepository /\ GitServiceCreated
     \/ EnsureSyncPassword /\ UNCHANGED gateVars
     \/ CopyInitialFiles /\ UNCHANGED gateVars
     \/ StartServices /\ UNCHANGED gateVars
     \/ CatchError /\ UNCHANGED gateVars
     \/ LaterOperation
  /\ UNCHANGED <<lockVars, procVars, mergeVars, copyVars, replicaVars, tailVars, scopeVars,
                 filterVars, debounceVars, timerVars, reentryVars, subdirVars, configuredVars,
                 stashVars, markerVars>>

SpecSetup == InitSetup /\ [][NextSetup]_vars

\* the URL carries the token
HoldsToken(url) == url # NoUrl /\ url.cred # ""

\* initializeRepository has returned without an error
RepositoryInitialized ==
  \/ cPc \in {"password", "copy", "start", "done"}
  \/ cPc \in {"catch", "failed"}
       /\ cError \in {"password_unset", "password_mismatch", "copy", "start"}

\* C21: once initializeRepository has returned, origin is the configured
\* repository URL without credentials: the same host, port and path, and
\* no token.
C21_OriginIsConfiguredUrlWithoutToken ==
  RepositoryInitialized =>
    /\ cOrigin # NoUrl
    /\ ~HoldsToken(cOrigin)
    /\ cOrigin.host = cUrl.host
    /\ cOrigin.port = cUrl.port
    /\ cOrigin.path = cUrl.path

\* C19: after a configuration attempt that failed, no token, no repository
\* URL and no sync password are stored any more.
C19_NoResidueOnFailure ==
  (cPc = "failed" /\ cEntry # "activate") =>
    /\ cStore = NothingStored
    /\ ~HoldsToken(cOrigin)

\* C35: after initialize() has failed with a password mismatch, no later
\* sync(), push() or pull() of the process exchanges data with the
\* repository: each fails as not initialized.
C35_MismatchBlocksExchange ==
  (cPc = "failed" /\ cError = "password_mismatch") => ~cExchanged

\* C20: with the sync password enabled, initialize() writes the hash file
\* when there is none, leaves it alone and goes on when it holds the hash of
\* the local password, fails with a mismatch (file untouched, nothing
\* copied) when it holds another hash, and fails (file untouched, nothing
\* copied) when no local password is set.
C20_PasswordGate ==
  (cEnabled /\ cReadPw # "unread") =>
    LET mine == Sha256(cReadPw)
        passed == cError \notin {"password_unset", "password_mismatch"}
    IN
    /\ (cReadPw = "none")
         => (cError = "password_unset" /\ cHashFile = cHashFile0 /\ ~cCopied)
    /\ (cReadPw # "none" /\ ~cHashFile0.exists)
         => (passed /\ cHashFile = HashLine(mine))
    /\ (cReadPw # "none" /\ cHashFile0.exists /\ cHashFile0.hash = mine)
         => (passed /\ cHashFile = cHashFile0)
    /\ (cReadPw # "none" /\ cHashFile0.exists /\ cHashFile0.hash # mine)
         => (cError = "password_mismatch" /\ cHashFile = cHashFile0 /\ ~cCopied)

\* initialize() has met a hash file holding the hash of the local password,
\* and one holding another hash, and has written a missing one
C20_Witness ==
  /\ cEnabled
  /\ cPc = "done"
  /\ cHashFile0.exists
  /\ cHashFile0.newline
  /\ cHashFile0.hash = Sha256(cReadPw)
  /\ cCopied

(***************************************************************************)
(* WatcherService: the debounced change path.  Time is counted in ticks;   *)
(* a timeout is the tick at which its callback runs.                       *)
(***************************************************************************)
WatchedPaths == {"brain/a.md", "brain/b.md"}
NoTimer == 0
\* config.syncIntervalMinutes * 60 * 1000
DelayMs == QuietPeriod

\* clearTimeout(this.debounceTimer)
ClearTimeout_none(timers, handle) == timers
ClearTimeout(timers, handle) == timers \ {handle}

\* chokidar reports add, change or unlink of a path: handleChange
HandleChange ==
  /\ dWatching
  /\ dNow + DelayMs <= MaxDebounceTime
  \* a callback that is due runs before a later event is delivered
  /\ \A t \in dTimers : dNow < t
  /\ \E filePath \in WatchedPaths :
       dPending' = dPending \cup {filePath}
  /\ dTimers' = ClearTimeout(dTimers, dHandle) \cup {dNow + DelayMs}
  /\ dHandle' = dNow + DelayMs
  /\ dLastEvent' = dNow
  \* bookkeeping: an event that meets no armed timer starts a burst
  /\ IF dTimers = {}
       THEN dBurstPushes' = 0 /\ dPushedAt' = NoTimer /\ dTrigger' = "none" /\ dPushThrew' = FALSE
       ELSE UNCHANGED <<dBurstPushes, dPushedAt, dTrigger, dPushThrew>>
  /\ UNCHANGED <<dNow, dWatching, dAutoSync>>

\* the callback of a timeout that is due: triggerSync; push() is awaited
\* and its error only logged
TriggerSync ==
  /\ dNow \in dTimers
  /\ dTimers' = dTimers \ {dNow}
  /\ IF dPending = {}
       THEN UNCHANGED <<dPending, dBurstPushes, dPushedAt, dTrigger, dPushThrew>>
     ELSE IF ~dAutoSync
       THEN /\ dPending' = {}
            /\ dTrigger' = "disabled"
            /\ UNCHANGED <<dBurstPushes, dPushedAt, dPushThrew>>
     ELSE /\ dPending' = {}
          /\ dBurstPushes' = dBurstPushes + 1
          /\ dPushedAt' = dNow
          /\ dTrigger' = "pushed"
          /\ dPushThrew' \in BOOLEAN
  /\ UNCHANGED <<dNow, dWatching, dAutoSync, dHandle, dLastEvent>>

\* the user switches auto sync off or on in the settings
ToggleAutoSync ==
  /\ dWatching
  /\ dAutoSync' = ~dAutoSync
  /\ UNCHANGED <<dNow, dWatching, dPending, dTimers, dHandle, dLastEvent, dBurstPushes,
                 dPushedAt, dTrigger, dPushThrew>>

\* stop(): the watcher is closed, the timer cleared, the pending set emptied
WatcherStop ==
  /\ dWatching
  /\ dWatching' = FALSE
  /\ dTimers' = IF dHandle # NoTimer THEN ClearTimeout(dTimers, dHandle) ELSE dTimers
  /\ dHandle' = NoTimer
  /\ dPending' = {}
  /\ UNCHANGED <<dNow, dAutoSync, dLastEvent, dBurstPushes, dPushedAt, dTrigger, dPushThrew>>

\* time passes, but not beyond a timeout that is due
DebounceTick ==
  /\ dNow < MaxDebounceTime
  /\ \A t \in dTimers : dNow < t
  /\ dNow' = dNow + 1
  /\ UNCHANGED <<dWatching, dAutoSync, dPending, dTimers, dHandle, dLastEvent,
                 dBurstPushes, dPushedAt, dTrigger, dPushThrew>>

\* start() has run with enabled and autoSync set
InitDebounce ==
  /\ dNow = 1
  /\ dWatching = TRUE
  /\ dAutoSync = TRUE
  /\ dPending = {}
  /\ dTimers = {}
  /\ dHandle = NoTimer
  /\ dLastEvent = NoTimer
  /\ dBurstPushes = 0
  /\ dPushedAt = NoTimer
  /\ dTrigger = "none"
  /\ dPushThrew = FALSE
  /\ InitLockIdle
  /\ InitMergeIdle
  /\ InitCopyIdle
  /\ InitReplicasIdle
  /\ InitTailIdle
  /\ InitScopeIdle
  /\ InitFilterIdle
  /\ InitSetupIdle
  /\ InitTimersIdle
  /\ InitReentryIdle
  /\ InitSubdirIdle
  /\ InitConfiguredIdle
  /\ InitStashIdle
  /\ InitMarkerIdle
  /\ InitGateIdle

NextDebounce ==
  /\ \/ HandleChange
     \/ TriggerSync
     \/ ToggleAutoSync
     \/ WatcherStop
     \/ DebounceTick
  /\ UNCHANGED <<lockVars, procVars, mergeVars, copyVars, replicaVars, tailVars, scopeVars,
                 filterVars, setupVars, timerVars, reentryVars, subdirVars, configuredVars, stashVars, markerVars, gateVars>>

SpecDebounce == InitDebounce /\ [][NextDebounce]_vars

\* a burst has come to its end: the watcher runs, an event was seen and no
\* timeout is armed any more
BurstOver == dWatching /\ dLastEvent # NoTimer /\ dTimers = {}

\* C22: when a burst of change events is over, push() was called exactly
\* once for it, one quiet period after its last event, and the pending set
\* is empty.
C22_OnePushPerBurst ==
  BurstOver =>
    /\ dBurstPushes = 1
    /\ dPushedAt = dLastEvent + DelayMs
    /\ dPending = {}

\* C22, amended: the same when auto sync is enabled at the moment the timer
\* fires; when it is disabled then, the pending set is emptied and push() is
\* not called.
C22_OnePushPerBurstWhileEnabled ==
  BurstOver =>
    /\ dPending = {}
    /\ dTrigger \in {"pushed", "disabled"}
    /\ (dTrigger = "pushed") => (dBurstPushes = 1 /\ dPushedAt = dLastEvent + DelayMs)
    /\ (dTrigger = "disabled") => (dBurstPushes = 0)

\* a burst of two events less than a quiet period apart has ended in a push
C22_Witness ==
  /\ BurstOver
  /\ dTrigger = "pushed"
  /\ dPushedAt > 1 + DelayMs
  /\ dPushedAt < 1 + DelayMs + DelayMs

\* C40: a debounced push that failed is not lost: while the watcher runs
\* and no later event has come, the changes are still pending or a timeout
\* is armed that will retry them.
C40_FailedPushKeepsTrigger ==
  (dWatching /\ dTrigger = "pushed" /\ dPushThrew) => (dPending # {} \/ dTimers # {})

(***************************************************************************)
(* SyncService: the interval path.  An interval timer is [id, due]; its    *)
(* callback runs at due and the timer is due again an interval later.      *)
(***************************************************************************)
NoHandle == 0
\* Math.max(1, config.syncIntervalMinutes) * 60 * 1000
IntervalMs == IntervalTicks

\* clearInterval(handle)
ClearInterval_none(timers, handle) == timers
ClearInterval(timers, handle) == {t \in timers : t.id # handle}

\* stopAutoSync() on the timer fields: <<sync timers, countdown timers>>
StoppedTimers == <<ClearInterval(tSyncTimers, tSyncHandle),
                   ClearInterval(tCountdownTimers, tCountdownHandle)>>

StartAutoSync ==
  /\ tNextId + 2 <= MaxTimerIds
  /\ tNow + IntervalMs <= MaxTimerTime
  /\ IF ~tAutoSync
       THEN /\ tSyncTimers' = StoppedTimers[1]
            /\ tCountdownTimers' = StoppedTimers[2]
            /\ tSyncHandle' = NoHandle
            /\ tCountdownHandle' = NoHandle
            /\ tNextSyncTime' = 0
            /\ tRunning' = FALSE
            /\ UNCHANGED tNextId
       ELSE /\ tNextSyncTime' = tNow + IntervalMs
            /\ tCountdownTimers' = StoppedTimers[2] \cup {[id |-> tNextId + 1, due |-> tNow + 1]}
            /\ tCountdownHandle' = tNextId + 1
            /\ tSyncTimers' = StoppedTimers[1] \cup {[id |-> tNextId + 2, due |-> tNow + IntervalMs]}
            /\ tSyncHandle' = tNextId + 2
            /\ tNextId' = tNextId + 2
            /\ tRunning' = TRUE
  /\ UNCHANGED <<tNow, tAutoSync, tInFlight, tLast, tLateStart>>

StopAutoSync ==
  /\ tSyncTimers' = StoppedTimers[1]
  /\ tCountdownTimers' = StoppedTimers[2]
  /\ tSyncHandle' = NoHandle
  /\ tCountdownHandle' = NoHandle
  /\ tNextSyncTime' = 0
  /\ tRunning' = FALSE
  /\ UNCHANGED <<tNow, tAutoSync, tNextId, tInFlight, tLast, tLateStart>>

\* the callback of the sync timer up to its await: sync() is called
AutoSyncFires ==
  /\ \E t \in tSyncTimers :
       /\ t.due = tNow
       /\ tInFlight < MaxInFlight
       /\ tSyncTimers' = (tSyncTimers \ {t}) \cup {[t EXCEPT !.due = tNow + IntervalMs]}
  /\ tInFlight' = tInFlight + 1
  \* bookkeeping: a sync started by a timer while auto sync was stopped
  /\ tLateStart' = (tLateStart \/ ~tRunning)
  /\ UNCHANGED <<tNow, tAutoSync, tCountdownTimers, tSyncHandle, tCountdownHandle,
                 tNextSyncTime, tNextId, tRunning, tLast>>

\* the rest of the callback: sync() has returned (done or skipped) or has
\* thrown
AutoSyncReturns ==
  /\ tInFlight > 0
  /\ tInFlight' = tInFlight - 1
  /\ \E outcome \in {"synced", "skipped", "error"} :
       /\ tNextSyncTime' = IF outcome = "error" THEN tNextSyncTime ELSE tNow + IntervalMs
       /\ tLast' = [outcome |-> outcome, at |-> tNow, next |-> tNextSyncTime']
  /\ UNCHANGED <<tNow, tAutoSync, tSyncTimers, tCountdownTimers, tSyncHandle,
                 tCountdownHandle, tNextId, tRunning, tLateStart>>

\* the user switches auto sync off or on in the settings
TimerConfigChange ==
  /\ tAutoSync' = ~tAutoSync
  /\ UNCHANGED <<tNow, tSyncTimers, tCountdownTimers, tSyncHandle, tCountdownHandle,
                 tNextSyncTime, tNextId, tInFlight, tRunning, tLast, tLateStart>>

\* time passes, but not beyond a sync timer that is due; the countdown
\* timer only reports nextSyncTime
TimerTick ==
  /\ tNow < MaxTimerTime
  /\ \A t \in tSyncTimers : tNow < t.due
  /\ tNow' = tNow + 1
  /\ tCountdownTimers' = {[t EXCEPT !.due = tNow + 1] : t \in tCountdownTimers}
  /\ UNCHANGED <<tAutoSync, tSyncTimers, tSyncHandle, tCountdownHandle, tNextSyncTime,
                 tNextId, tInFlight, tRunning, tLast, tLateStart>>

InitTimers ==
  /\ tNow = 1
  /\ tAutoSync \in BOOLEAN
  /\ tSyncTimers = {}
  /\ tCountdownTimers = {}
  /\ tSyncHandle = NoHandle
  /\ tCountdownHandle = NoHandle
  /\ tNextSyncTime = 0
  /\ tNextId = 0
  /\ tInFlight = 0
  /\ tRunning = FALSE
  /\ tLast = [outcome |-> "none", at |-> 0, next |-> 0]
  /\ tLateStart = FALSE
  /\ InitLockIdle
  /\ InitMergeIdle
  /\ InitCopyIdle
  /\ InitReplicasIdle
  /\ InitTailIdle
  /\ InitScopeIdle
  /\ InitFilterIdle
  /\ InitSetupIdle
  /\ InitDebounceIdle
  /\ InitReentryIdle
  /\ InitSubdirIdle
  /\ InitConfiguredIdle
  /\ InitStashIdle
  /\ InitMarkerIdle
  /\ InitGateIdle

NextTimers ==
  /\ \/ StartAutoSync
     \/ StopAutoSync
     \/ AutoSyncFires
     \/ AutoSyncReturns
     \/ TimerConfigChange
     \/ TimerTick
  /\ UNCHANGED <<lockVars, procVars, mergeVars, copyVars, replicaVars, tailVars, scopeVars,
                 filterVars, setupVars, debounceVars, reentryVars, subdirVars, configuredVars, stashVars, markerVars, gateVars>>

SpecTimers == InitTimers /\ [][NextTimers]_vars

\* C23: when a sync attempt of the interval timer is over, whatever its
\* outcome, the time of the next run is the time of its end plus the
\* interval.
C23_CountdownRestartsAfterEveryAttempt ==
  (tLast.outcome # "none") => (tLast.next = tLast.at + IntervalMs)

\* C24: while auto sync is started there is exactly one sync timer and one
\* countdown timer, also after a sync that failed; once it is stopped there
\* is none, and no timer starts a sync any more.
C24_TimersFollowStartAndStop ==
  /\ Cardinality(tSyncTimers) <= 1
  /\ Cardinality(tCountdownTimers) <= 1
  /\ tRunning => (Cardinality(tSyncTimers) = 1 /\ Cardinality(tCountdownTimers) = 1)
  /\ ~tRunning => (tSyncTimers = {} /\ tCountdownTimers = {})
  /\ ~tLateStart

\* auto sync was started twice, a periodic sync has failed, and the timer
\* is still armed
C24_Witness ==
  /\ tRunning
  /\ tNextId >= 4
  /\ tLast.outcome = "error"
  /\ \E t \in tSyncTimers : t.due > tNow

(***************************************************************************)
(* SpecSubdir: the configured repository sub-directory and the sync data   *)
(* root resolved from it.  A setting is a sequence of characters; the data *)
(* root is kept relative to the repository root, as the number of levels   *)
(* it climbs above it and the segments it descends below it.               *)
(***************************************************************************)
Chars == {"/", "\\", ".", " ", "a"}
Separators(platform) == IF platform = "win32" THEN {"/", "\\"} ELSE {"/"}
Settings == UNION {[1..n -> Chars] : n \in 0..MaxSubdirLen}
DefaultSubdir ==
  <<".", "a", "n", "t", "i", "g", "r", "a", "v", "i", "t", "y", "-", "s", "y", "n", "c">>
NoRoot == [up |-> 0 - 1, segs |-> <<>>]

RECURSIVE DropLeading(_, _)
DropLeading(s, set) ==
  IF s # <<>> /\ Head(s) \in set THEN DropLeading(Tail(s), set) ELSE s

RECURSIVE DropTrailing(_, _)
DropTrailing(s, set) ==
  IF s # <<>> /\ s[Len(s)] \in set THEN DropTrailing(SubSeq(s, 1, Len(s) - 1), set) ELSE s

\* String.prototype.trim
TrimSpaces(s) == DropTrailing(DropLeading(s, {" "}), {" "})

\* path.isAbsolute, for settings without a drive letter
IsAbsolute(s, platform) == s # <<>> /\ s[1] \in Separators(platform)

\* subdir.includes('..')
IncludesDotDot(s) == \E i \in 1..(Len(s) - 1) : s[i] = "." /\ s[i + 1] = "."

GetSyncRepoSubdir(setting, platform) ==
  LET subdir == TrimSpaces(IF setting = <<>> THEN DefaultSubdir ELSE setting)
      stripped == DropTrailing(DropLeading(subdir, {"/", "\\"}), {"/", "\\"})
  IN IF subdir = <<>> \/ subdir = <<".">> \/ subdir = <<"/">> \/ IsAbsolute(subdir, platform)
       THEN DefaultSubdir
     ELSE IF IncludesDotDot(stripped) THEN DefaultSubdir
     ELSE stripped

RECURSIVE SplitPath(_, _, _, _)
SplitPath(s, seps, cur, acc) ==
  IF s = <<>> THEN Append(acc, cur)
  ELSE IF Head(s) \in seps THEN SplitPath(Tail(s), seps, <<>>, Append(acc, cur))
  ELSE SplitPath(Tail(s), seps, Append(cur, Head(s)), acc)

\* path.join(root, subdir), relative to root: empty and "." segments vanish,
\* ".." removes the segment before it or climbs one level
RECURSIVE JoinBelow(_, _)
JoinBelow(segments, at) ==
  IF segments = <<>> THEN at
  ELSE LET seg == Head(segments)
           next == IF seg = <<>> \/ seg = <<".">> THEN at
                   ELSE IF seg = <<".", ".">>
                     THEN IF at.segs # <<>>
                            THEN [at EXCEPT !.segs = SubSeq(at.segs, 1, Len(at.segs) - 1)]
                          ELSE [at EXCEPT !.up = at.up + 1]
                   ELSE [at EXCEPT !.segs = Append(at.segs, seg)]
       IN JoinBelow(Tail(segments), next)

GetSyncDataRoot(setting, platform) ==
  JoinBelow(SplitPath(GetSyncRepoSubdir(setting, platform), Separators(platform), <<>>, <<>>),
            [up |-> 0, segs |-> <<>>])

ResolveDataRoot ==
  /\ kRoot = NoRoot
  /\ kRoot' = GetSyncDataRoot(kSubdir, kPlatform)
  /\ UNCHANGED <<kPlatform, kSubdir>>

\* the user edits the setting
ChangeSubdir ==
  /\ kRoot # NoRoot
  /\ kSubdir' \in Settings
  /\ kRoot' = NoRoot
  /\ UNCHANGED kPlatform

InitSubdir ==
  /\ kPlatform \in {"posix", "win32"}
  /\ kSubdir \in Settings
  /\ kRoot = NoRoot
  /\ InitLockIdle
  /\ InitMergeIdle
  /\ InitCopyIdle
  /\ InitReplicasIdle
  /\ InitTailIdle
  /\ InitScopeIdle
  /\ InitFilterIdle
  /\ InitSetupIdle
  /\ InitDebounceIdle
  /\ InitTimersIdle
  /\ InitReentryIdle
  /\ InitConfiguredIdle
  /\ InitStashIdle
  /\ InitMarkerIdle
  /\ InitGateIdle

NextSubdir ==
  /\ \/ ResolveDataRoot
     \/ ChangeSubdir
  /\ UNCHANGED <<lockVars, procVars, mergeVars, copyVars, replicaVars, tailVars, scopeVars,
                 filterVars, setupVars, debounceVars, timerVars, reentryVars, configuredVars, stashVars, markerVars, gateVars>>

SpecSubdir == InitSubdir /\ [][NextSubdir]_vars

\* C26: whatever the setting, the resolved sync data root lies strictly
\* below the repository root: it neither is the root nor climbs out of it.
C26_DataRootStrictlyInsideRepo ==
  (kRoot # NoRoot) => (kRoot.up = 0 /\ kRoot.segs # <<>>)

(***************************************************************************)
(* SpecConfigured: the repositoryUrl setting, the secret kept under        *)
(* antigravitySync.gitToken, and calls of ConfigService.isConfigured().    *)
(* The setting is read when isConfigured() is called, the secret when the  *)
(* awaited getCredentials() resolves.                                      *)
(***************************************************************************)
Undefined == "undefined"
UrlSettings == {"", "https://host/a", "https://host/b", "git@host:a"}
Tokens == {"tokenA", "tokenB", "tokenC"}

\* JavaScript's truth value of a string or undefined
TruthyText(v) == v \notin {"", Undefined}

\* return !!(config.repositoryUrl && pat)
IsConfigured_either(repositoryUrl, pat) == TruthyText(repositoryUrl) \/ TruthyText(pat)
IsConfigured(repositoryUrl, pat) == TruthyText(repositoryUrl) /\ TruthyText(pat)

\* setRepositoryUrl(url), and update('repositoryUrl', '') on disconnect and
\* on a failed attempt
SetRepositoryUrl ==
  /\ \E url \in UrlSettings : qUrl' = url /\ url # qUrl
  /\ UNCHANGED <<qSecret, qPc, qReadUrl, qAnswer>>

\* saveCredentials(token): context.secrets.store
SaveCredentials ==
  /\ \E token \in Tokens : qSecret' = token /\ token # qSecret
  /\ UNCHANGED <<qUrl, qPc, qReadUrl, qAnswer>>

\* deleteCredentials(): context.secrets.delete
DeleteCredentials ==
  /\ qSecret # Undefined
  /\ qSecret' = Undefined
  /\ UNCHANGED <<qUrl, qPc, qReadUrl, qAnswer>>

\* isConfigured() up to its await: const config = this.getConfig()
IsConfiguredCalled ==
  /\ qPc \in {"idle", "returned"}
  /\ qReadUrl' = qUrl
  /\ qPc' = "awaiting"
  /\ UNCHANGED <<qUrl, qSecret, qAnswer>>

\* getCredentials() resolves and isConfigured() returns
IsConfiguredReturns ==
  /\ qPc = "awaiting"
  /\ qAnswer' = IsConfigured(qReadUrl, qSecret)
  /\ qPc' = "returned"
  /\ UNCHANGED <<qUrl, qSecret, qReadUrl>>

InitConfigured ==
  /\ qUrl \in UrlSettings
  /\ qSecret \in Tokens \cup {Undefined}
  /\ qPc = "idle"
  /\ qReadUrl = ""
  /\ qAnswer = FALSE
  /\ InitLockIdle
  /\ InitMergeIdle
  /\ InitCopyIdle
  /\ InitReplicasIdle
  /\ InitTailIdle
  /\ InitScopeIdle
  /\ InitFilterIdle
  /\ InitSetupIdle
  /\ InitDebounceIdle
  /\ InitTimersIdle
  /\ InitReentryIdle
  /\ InitSubdirIdle
  /\ InitStashIdle
  /\ InitMarkerIdle
  /\ InitGateIdle

NextConfigured ==
  /\ \/ SetRepositoryUrl
     \/ SaveCredentials
     \/ DeleteCredentials
     \/ IsConfiguredCalled
     \/ IsConfiguredReturns
  /\ UNCHANGED <<lockVars, procVars, mergeVars, copyVars, replicaVars, tailVars, scopeVars,
                 filterVars, setupVars, debounceVars, timerVars, reentryVars, subdirVars, stashVars, markerVars, gateVars>>

SpecConfigured == InitConfigured /\ [][NextConfigured]_vars

\* C28: isConfigured() answers true exactly when the repository URL setting
\* is non-empty and an access token is stored (the setting not having been
\* changed while the call awaited the secret store).
C28_ConfiguredIffUrlAndToken ==
  [][(qPc = "awaiting" /\ qPc' = "returned" /\ qReadUrl = qUrl) =>
       (qAnswer' = (qUrl # "" /\ qSecret # Undefined))]_vars

\* isConfigured() has answered true with both present
C28_Witness ==
  /\ qPc = "returned"
  /\ qAnswer
  /\ qReadUrl = qUrl /\ qUrl # ""
  /\ qSecret \in Tokens

(***************************************************************************)
(* SpecStash: GitService.pull() on a repository whose working tree can     *)
(* hold uncommitted changes.  `git stash push` sets the modified tracked   *)
(* paths aside as one entry; `git stash pop` applies the newest entry and  *)
(* drops it, keeps it when applying conflicts, or refuses.                 *)
(***************************************************************************)
RepoPaths == {"a", "b"}
CleanTree == [p \in RepoPaths |-> "clean"]
Modified(tree) == {p \in RepoPaths : tree[p] = "modified"}
\* status.files.length > 0: modified and untracked paths both count
HasChanges(tree) == \E p \in RepoPaths : tree[p] # "clean"

\* git stash push -m antigravity-sync-fixed-temp: "No local changes to save"
\* when only untracked paths are there
StashPush(tree, stash) ==
  IF Modified(tree) = {}
    THEN [tree |-> tree, stash |-> stash, made |-> FALSE]
    ELSE [tree |-> [p \in RepoPaths |-> IF tree[p] = "modified" THEN "clean" ELSE tree[p]],
          stash |-> <<Modified(tree)>> \o stash, made |-> TRUE]

\* git.stash(['pop']).catch(() => { }): what one attempt can leave behind
StashPop(tree, stash, conflicted, mayConflict) ==
  IF stash = <<>> THEN {[tree |-> tree, stash |-> stash, conflicted |-> conflicted]}
  ELSE LET applied == [p \in RepoPaths |-> IF p \in Head(stash) THEN "modified" ELSE tree[p]]
       IN {[tree |-> applied, stash |-> Tail(stash), conflicted |-> conflicted],
           [tree |-> tree, stash |-> stash, conflicted |-> conflicted]}
          \cup (IF mayConflict
                  THEN {[tree |-> applied, stash |-> stash, conflicted |-> TRUE]}
                  ELSE {})

\* handleSmartMerge(hasStash): abort, pop, reset, fetch; when the fetch does
\* not throw, git add -A and the commit leave the tree clean
HandleSmartMerge(hasStash) ==
  \E after \in IF hasStash THEN StashPop(hTree, hStash, hConflicted, TRUE)
               ELSE {[tree |-> hTree, stash |-> hStash, conflicted |-> hConflicted]},
     fetched \in BOOLEAN :
    /\ hPopTried' = hasStash
    /\ hStash' = after.stash
    /\ hTree' = IF fetched THEN CleanTree ELSE after.tree
    /\ hConflicted' = IF fetched THEN FALSE ELSE after.conflicted
    /\ hExit' = IF fetched THEN "smartMerge" ELSE "thrown"
    /\ hPc' = "done"

\* the working tree of the mirror changes between two pulls: a copy that
\* was not committed, a new file
TreeChanges ==
  /\ hPc \in {"idle", "done"}
  /\ \E p \in RepoPaths, to \in {"modified", "untracked"} :
       /\ hTree[p] = "clean"
       /\ hTree' = [hTree EXCEPT ![p] = to]
  /\ UNCHANGED <<hStash, hConflicted, hPc, hHasChanges, hSetAside, hPopTried, hExit>>

\* git add -A and commit of a later push
TreeCommitted ==
  /\ hPc \in {"idle", "done"}
  /\ ~hConflicted
  /\ hTree # CleanTree
  /\ hTree' = CleanTree
  /\ UNCHANGED <<hStash, hConflicted, hPc, hHasChanges, hSetAside, hPopTried, hExit>>

\* pull() up to the call of git pull --rebase
GitPullBegins ==
  /\ hPc \in {"idle", "done"}
  /\ Len(hStash) < MaxStash
  /\ hHasChanges' = HasChanges(hTree)
  /\ IF hConflicted
       THEN /\ hSetAside' = FALSE
            /\ HandleSmartMerge(FALSE)
       ELSE \E statusOk \in BOOLEAN, pushOk \in BOOLEAN :
              IF ~statusOk \/ (HasChanges(hTree) /\ ~pushOk)
                THEN /\ hExit' = "thrown"
                     /\ hPc' = "done"
                     /\ hSetAside' = FALSE
                     /\ hPopTried' = FALSE
                     /\ UNCHANGED <<hTree, hStash, hConflicted>>
                ELSE LET set == IF HasChanges(hTree) THEN StashPush(hTree, hStash)
                                ELSE [tree |-> hTree, stash |-> hStash, made |-> FALSE]
                     IN /\ hTree' = set.tree
                        /\ hStash' = set.stash
                        /\ hSetAside' = set.made
                        /\ hPopTried' = FALSE
                        /\ hExit' = "none"
                        /\ hPc' = "pulling"
                        /\ UNCHANGED hConflicted

\* git pull --rebase returns or throws, and pull() runs to its end
GitPullEnds ==
  /\ hPc = "pulling"
  /\ \E pulled \in {"ok", "emptyRemote", "conflict", "error"} :
       IF pulled = "conflict"
         THEN HandleSmartMerge(hHasChanges)
         ELSE \E after \in IF hHasChanges
                             THEN StashPop(hTree, hStash, hConflicted, pulled = "ok")
                             ELSE {[tree |-> hTree, stash |-> hStash,
                                    conflicted |-> hConflicted]} :
                /\ hPopTried' = hHasChanges
                /\ hTree' = after.tree
                /\ hStash' = after.stash
                /\ hConflicted' = after.conflicted
                /\ hExit' = IF pulled = "error" THEN "thrown" ELSE pulled
                /\ hPc' = "done"
  /\ UNCHANGED <<hHasChanges, hSetAside>>

InitStash ==
  /\ hTree \in [RepoPaths -> {"clean", "modified", "untracked"}]
  /\ hStash = <<>>
  /\ hConflicted = FALSE
  /\ hPc = "idle"
  /\ hHasChanges = FALSE
  /\ hSetAside = FALSE
  /\ hPopTried = FALSE
  /\ hExit = "none"
  /\ InitLockIdle
  /\ InitMergeIdle
  /\ InitCopyIdle
  /\ InitReplicasIdle
  /\ InitTailIdle
  /\ InitScopeIdle
  /\ InitFilterIdle
  /\ InitSetupIdle
  /\ InitDebounceIdle
  /\ InitTimersIdle
  /\ InitReentryIdle
  /\ InitSubdirIdle
  /\ InitConfiguredIdle
  /\ InitMarkerIdle
  /\ InitGateIdle

NextStash ==
  /\ \/ TreeChanges
     \/ TreeCommitted
     \/ GitPullBegins
     \/ GitPullEnds
  /\ UNCHANGED <<lockVars, procVars, mergeVars, copyVars, replicaVars, tailVars, scopeVars,
                 filterVars, setupVars, debounceVars, timerVars, reentryVars, subdirVars,
                 configuredVars, markerVars, gateVars>>

SpecStash == InitStash /\ [][NextStash]_vars

\* C31: a pull() that set local changes aside tries to restore them on
\* every exit path, sets nothing aside when it finds conflicts already
\* there, and leaves no set-aside change unrestored when it ends.
C31_StashRestoredOnEveryExit ==
  (hPc = "done") =>
    /\ hSetAside => hPopTried
    /\ hStash = <<>>

(***************************************************************************)
(* SpecMarker: two machines, each with its own clone of the repository.    *)
(* The lock marker .sync.lock is a file in the root of the clone, and no   *)
(* ignore rule names it, so git sees it like any other file.  A marker is  *)
(* [exists, ts, by]: its timestamp and the machine whose acquireLock wrote *)
(* it; ts = NotANumber stands for a content parseInt cannot read (the      *)
(* conflict text git leaves in a file).                                    *)
(***************************************************************************)
NoMarker == [exists |-> FALSE, ts |-> 0, by |-> "none"]
MarkerBy(t, r) == [exists |-> TRUE, ts |-> t, by |-> r]
ConflictText == [exists |-> TRUE, ts |-> NotANumber, by |-> "none"]

\* acquireLock against the marker in this clone: does it return false?
MarkerHolds(m, clock) == m.exists /\ (m.ts = NotANumber \/ ~IsStale(m.ts, clock))

\* git pull --rebase origin main inside GitService.pull, seen from the
\* marker: [tree, head, threw].  Nothing to fetch: the stash and its pop
\* give the tree back.  Marker untracked here and present remotely: git
\* refuses to overwrite it and pull() throws.  Marker tracked and changed
\* on both sides: the stash pop conflicts, the tree holds the remote
\* marker or conflict text.  A clone with an unpushed commit goes through
\* Smart Merge, which keeps one of the two sides and commits.
GitPullMarker(tree, head, remote, ahead) ==
  IF remote = head \/ (ahead /\ ~remote.exists)
    THEN {[tree |-> tree, head |-> head, threw |-> FALSE]}
  ELSE IF ahead
    THEN {[tree |-> t, head |-> t, threw |-> FALSE] : t \in {tree, remote}}
  ELSE IF ~head.exists
    THEN IF tree.exists
           THEN {[tree |-> tree, head |-> head, threw |-> TRUE]}
           ELSE {[tree |-> remote, head |-> remote, threw |-> FALSE]}
  ELSE IF tree = head \/ ~tree.exists
    THEN {[tree |-> remote, head |-> remote, threw |-> FALSE]}
  ELSE {[tree |-> t, head |-> remote, threw |-> FALSE] : t \in {remote, ConflictText}}

\* sync() up to the await of pull(): acquireLock
MarkerAcquire(r) ==
  /\ nPc[r] = "idle"
  /\ IF MarkerHolds(nTree[r], nNow)
       THEN /\ nSkippedBy' = [nSkippedBy EXCEPT ![r] = nTree[r].by]
            /\ UNCHANGED <<nTree, nPc>>
       ELSE /\ nTree' = [nTree EXCEPT ![r] = MarkerBy(nNow, r)]
            /\ nPc' = [nPc EXCEPT ![r] = "pull"]
            /\ UNCHANGED nSkippedBy
  /\ UNCHANGED <<nHead, nRemote, nAhead, nNow>>

\* the pull half of sync(); when it throws, finally releases the lock
MarkerSyncPull(r) ==
  /\ nPc[r] = "pull"
  /\ \E o \in GitPullMarker(nTree[r], nHead[r], nRemote, nAhead[r]) :
       IF o.threw
         THEN /\ nTree' = [nTree EXCEPT ![r] = NoMarker]
              /\ nPc' = [nPc EXCEPT ![r] = "idle"]
              /\ UNCHANGED <<nHead, nAhead>>
         ELSE /\ nTree' = [nTree EXCEPT ![r] = o.tree]
              /\ nHead' = [nHead EXCEPT ![r] = o.head]
              /\ nAhead' = [nAhead EXCEPT ![r] = nAhead[r] /\ o.head = nHead[r]]
              /\ nPc' = [nPc EXCEPT ![r] = "push"]
  /\ UNCHANGED <<nRemote, nSkippedBy, nNow>>

\* pushWithoutPull: stageAll (git add -A), commit, git push, and the
\* finally block of sync().  The push is rejected when the remote moved.
MarkerSyncPush(r) ==
  /\ nPc[r] = "push"
  /\ LET committed == nTree[r]
         accepted == nRemote = nHead[r] \/ ~nRemote.exists
     IN /\ nHead' = [nHead EXCEPT ![r] = committed]
        /\ nRemote' = IF accepted THEN committed ELSE nRemote
        /\ nAhead' = [nAhead EXCEPT ![r] = ~accepted]
  /\ nTree' = [nTree EXCEPT ![r] = NoMarker]
  /\ nPc' = [nPc EXCEPT ![r] = "idle"]
  /\ UNCHANGED <<nSkippedBy, nNow>>

\* pull() called on its own (the pull command, or the pull that opens
\* push()): no lock is taken
MarkerPull(r) ==
  /\ nPc[r] = "idle"
  /\ \E o \in GitPullMarker(nTree[r], nHead[r], nRemote, nAhead[r]) :
       /\ ~o.threw
       /\ nTree' = [nTree EXCEPT ![r] = o.tree]
       /\ nHead' = [nHead EXCEPT ![r] = o.head]
       /\ nAhead' = [nAhead EXCEPT ![r] = nAhead[r] /\ o.head = nHead[r]]
       /\ <<nTree', nHead'>> # <<nTree, nHead>>
  /\ UNCHANGED <<nRemote, nPc, nSkippedBy, nNow>>

MarkerTick ==
  /\ nNow < MaxTicks * TickMs
  /\ nNow' = nNow + TickMs
  /\ UNCHANGED <<nTree, nHead, nRemote, nAhead, nPc, nSkippedBy>>

InitMarker ==
  /\ nTree = [r \in Replicas |-> NoMarker]
  /\ nHead = [r \in Replicas |-> NoMarker]
  /\ nRemote = NoMarker
  /\ nAhead = [r \in Replicas |-> FALSE]
  /\ nPc = [r \in Replicas |-> "idle"]
  /\ nSkippedBy = [r \in Replicas |-> "none"]
  /\ nNow = 0
  /\ InitLockIdle
  /\ InitMergeIdle
  /\ InitCopyIdle
  /\ InitReplicasIdle
  /\ InitTailIdle
  /\ InitScopeIdle
  /\ InitFilterIdle
  /\ InitSetupIdle
  /\ InitDebounceIdle
  /\ InitTimersIdle
  /\ InitReentryIdle
  /\ InitSubdirIdle
  /\ InitConfiguredIdle
  /\ InitStashIdle
  /\ InitGateIdle

NextMarker ==
  /\ \/ \E r \in Replicas : MarkerAcquire(r)
     \/ \E r \in Replicas : MarkerSyncPull(r)
     \/ \E r \in Replicas : MarkerSyncPush(r)
     \/ \E r \in Replicas : MarkerPull(r)
     \/ MarkerTick
  /\ UNCHANGED <<lockVars, procVars, mergeVars, copyVars, replicaVars, tailVars, scopeVars,
                 filterVars, setupVars, debounceVars, timerVars, reentryVars, subdirVars,
                 configuredVars, stashVars, gateVars>>

SpecMarker == InitMarker /\ [][NextMarker]_vars

\* C33: the lock marker is local state: it is never committed or pushed, a
\* marker in a working tree was written there by that machine's own
\* acquireLock, and no sync is skipped because of another machine's marker.
C33_MarkerStaysLocal ==
  /\ ~nRemote.exists
  /\ \A r \in Replicas :
       /\ ~nHead[r].exists
       /\ nTree[r].exists => nTree[r].by = r
       /\ nSkippedBy[r] \in {"none", r}

(***************************************************************************)
(* SpecRecreate: edits and deletions in the working directory, pushes, and *)
(* one pull() at the end, on the file of the push world.                   *)
(***************************************************************************)
\* pull() starts: git finds nothing new on the remote, and
\* copyFilesFromSyncRepo walks the mirror
PullBegins ==
  /\ wPc = "idle"
  /\ wRepo.exists
  /\ wPc' = "start"
  /\ wLocal0' = wLocal
  /\ UNCHANGED <<wLocal, wRepo, wHead, wRemoteTip, wSnapshot, wStats, wCopied, wCommits,
                 wPushes, wLast, wClock, wIgnored, wArtifactName, wUnderSync>>

NextRecreate ==
  /\ \/ wPc = "idle" /\ LocalEdit
     \/ wPc = "idle" /\ LocalDelete
     \/ wPc = "idle" /\ ClockTick
     \/ wPc = "idle" /\ Push
     \/ PullBegins
     \/ PullCopyEntry
  /\ UNCHANGED <<lockVars, procVars, mergeVars, replicaVars, tailVars, scopeVars, filterVars, setupVars, debounceVars, timerVars, reentryVars, subdirVars, configuredVars, stashVars, markerVars, gateVars>>

SpecRecreate == InitPush /\ [][NextRecreate]_vars

\* C37: the copy engine never deletes.  No step removes the file from the
\* mirror, the pull-time copy never removes it from the working directory,
\* and a file that is missing locally while the mirror has it is written
\* again by the next pull.
C37_CopyNeverDeletes ==
  [][/\ wRepo.exists => wRepo'.exists
     /\ (wPc = "start" /\ wPc' = "done") =>
          /\ wLocal.exists => wLocal'.exists
          /\ (~wLocal.exists /\ ~wIgnored) =>
               (wLocal'.exists /\ wLocal'.content = wRepo.content)]_vars
\* the file was pushed, then deleted locally, and the pull wrote it again
C37_Witness ==
  /\ wPc = "done"
  /\ wLast \in {"push", "push2"}
  /\ wPushes >= 1
  /\ ~wLocal0.exists
  /\ wLocal.exists /\ wLocal.content = wRepo.content

(***************************************************************************)
(* SpecGarbage: the windows call acquireLock again and again (every        *)
(* trigger of sync() starts with it) against a marker that is absent,      *)
(* stale, still valid, or holds a content that is not a number: an empty   *)
(* file left by a crash between the creation and the write, or garbage.    *)
(***************************************************************************)
InitGarbage ==
  /\ now \in Times
  /\ lockFile \in {NoFile, Marker(NotANumber)} \cup {Marker(t) : t \in {u \in Times : u <= now}}
  /\ marker0 = IF ~lockFile.exists THEN "absent"
               ELSE IF lockFile.ts = NotANumber THEN "garbage"
               ELSE IF IsStale(lockFile.ts, now) THEN "stale" ELSE "valid"
  /\ pc = [p \in Procs |-> "a_exists"]
  /\ lockTime = [p \in Procs |-> 0]
  /\ found = [p \in Procs |-> "none"]
  /\ result = [p \in Procs |-> FALSE]
  /\ InitProcIdle
  /\ InitMergeIdle
  /\ InitCopyIdle
  /\ InitReplicasIdle
  /\ InitTailIdle
  /\ InitScopeIdle
  /\ InitFilterIdle
  /\ InitSetupIdle
  /\ InitDebounceIdle
  /\ InitTimersIdle
  /\ InitReentryIdle
  /\ InitSubdirIdle
  /\ InitConfiguredIdle
  /\ InitStashIdle
  /\ InitMarkerIdle
  /\ InitGateIdle

\* the next trigger of sync() in a window whose acquireLock returned false
AcquireAgain(p) ==
  /\ pc[p] = "a_false"
  /\ pc' = [pc EXCEPT ![p] = "a_exists"]
  /\ UNCHANGED <<lockFile, now, lockTime, found, result, marker0>>

AcquireStep ==
  \E p \in Procs :
    AcqExists(p) \/ AcqRead(p) \/ AcqUnlink(p) \/ AcqCatch(p) \/ AcqCreate(p) \/ AcquireAgain(p)

NextGarbage ==
  /\ \/ AcquireStep
     \/ Tick
  /\ UNCHANGED <<procVars, mergeVars, copyVars, replicaVars, tailVars, scopeVars, filterVars, setupVars, debounceVars, timerVars, reentryVars, subdirVars, configuredVars, stashVars, markerVars, gateVars>>

\* the calls go on and time passes
SpecGarbage ==
  InitGarbage /\ [][NextGarbage]_vars /\ WF_lockVars(AcquireStep) /\ WF_lockVars(Tick)

\* C39: a marker whose content is not a number does not block for ever:
\* some later acquireLock removes it and returns true.
C39_GarbageMarkerReclaimed ==
  (lockFile.exists /\ lockFile.ts = NotANumber) ~> (\E p \in Procs : pc[p] = "a_true")

(***************************************************************************)
(* SpecAcquire: every window calls acquireLock once, against a marker      *)
(* that is absent, stale or still valid.                                   *)
(***************************************************************************)
InitAcquire ==
  /\ now \in Times
  /\ lockFile \in {NoFile} \cup {Marker(t) : t \in {u \in Times : u <= now}}
  /\ marker0 = IF ~lockFile.exists THEN "absent"
               ELSE IF IsStale(lockFile.ts, now) THEN "stale" ELSE "valid"
  /\ pc = [p \in Procs |-> "a_exists"]
  /\ lockTime = [p \in Procs |-> 0]
  /\ found = [p \in Procs |-> "none"]
  /\ result = [p \in Procs |-> FALSE]
  /\ InitProcIdle
  /\ InitMergeIdle
  /\ InitCopyIdle
  /\ InitReplicasIdle
  /\ InitTailIdle
  /\ InitScopeIdle
  /\ InitFilterIdle
  /\ InitSetupIdle
  /\ InitDebounceIdle
  /\ InitTimersIdle
  /\ InitReentryIdle
  /\ InitSubdirIdle
  /\ InitConfiguredIdle
  /\ InitStashIdle
  /\ InitMarkerIdle
  /\ InitGateIdle

NextAcquire ==
  \/ /\ \E p \in Procs : AcqExists(p) \/ AcqRead(p) \/ AcqUnlink(p) \/ AcqCatch(p) \/ AcqCreate(p)
     /\ UNCHANGED <<procVars, mergeVars, copyVars, replicaVars, tailVars, scopeVars, filterVars, setupVars, debounceVars, timerVars, reentryVars, subdirVars, configuredVars, stashVars, markerVars, gateVars>>
  \/ Tick /\ UNCHANGED <<procVars, mergeVars, copyVars, replicaVars, tailVars, scopeVars, filterVars, setupVars, debounceVars, timerVars, reentryVars, subdirVars, configuredVars, stashVars, markerVars, gateVars>>

SpecAcquire == InitAcquire /\ [][NextAcquire]_vars

AcqReturned(p) == pc[p] \in {"a_true", "a_false", "a_threw"}
Other(p) == CHOOSE q \in Procs : q # p

\* C2: two concurrent acquire() calls against one marker path, the marker
\* initially absent or stale: once both calls are over, exactly one of them
\* has returned true.
C2_ExactlyOneAcquires ==
  ((\A p \in Procs : AcqReturned(p)) /\ marker0 \in {"absent", "stale"})
    => Cardinality({p \in Procs : pc[p] = "a_true"}) = 1

\* C8: an acquire() that no other call interferes with takes the stale branch
\* exactly when the marker's timestamp is more than 5 minutes old, and then
\* ends with the old marker removed and its own marker in place, returning
\* true; on a younger marker it returns false and leaves the marker as it was.
C8_Threshold ==
  \A p \in Procs :
    (pc[p] = "a_read" /\ lockFile.exists /\ pc'[p] # pc[p]) =>
      IF now - lockFile.ts > 5 * 60 * 1000
        THEN pc'[p] = "a_unlink" /\ lockFile' = lockFile
        ELSE pc'[p] = "a_false" /\ lockFile' = lockFile
C8_Outcome ==
  \A p \in Procs :
    (AcqReturned(p) /\ pc[Other(p)] = "a_exists") =>
      /\ found[p] = "stale" =>
            (pc[p] = "a_true" /\ lockFile.exists /\ lockFile.ts > lockTime[p])
      /\ found[p] = "fresh" =>
            (pc[p] = "a_false" /\ lockFile = Marker(lockTime[p]))
C8_StaleLockReclaimed == []C8_Outcome /\ [][C8_Threshold]_vars
C8_Witness ==
  \E p \in Procs :
    /\ pc[p] = "a_true" /\ found[p] = "stale" /\ pc[Other(p)] = "a_exists"
    /\ lockFile.exists /\ lockFile.ts > lockTime[p]

(***************************************************************************)
(* Spec: the windows run sync(), push() and pull() again and again.  The   *)
(* interval timer and the "sync now" command call sync(); the debounced    *)
(* watcher and the push command call push(); the pull command calls pull().*)
(* An await on a git command is a point where other calls interleave.      *)
(***************************************************************************)
\* the synchronous part of sync() blocks the event loop of its window
Blocked(p) == pc[p] \in AcqSteps \cup {"a_true", "a_false", "a_threw"}

\* releaseLock: remove the marker if it is there, ignore every error
ReleaseLock_keep == UNCHANGED lockFile
ReleaseLock == lockFile' = NoFile

\* the finally block of sync()
Finally(p) ==
  /\ isSyncing' = [isSyncing EXCEPT ![p] = FALSE]
  /\ ReleaseLock
  /\ pc' = [pc EXCEPT ![p] = "idle"]
  /\ lockTime' = [lockTime EXCEPT ![p] = 0]
  /\ found' = [found EXCEPT ![p] = "none"]
  /\ result' = [result EXCEPT ![p] = FALSE]

\* sync() is called and isSyncing is false: acquireLock starts
SyncStart(p) ==
  /\ pc[p] = "idle"
  /\ ~isSyncing[p]
  /\ pc' = [pc EXCEPT ![p] = "a_exists"]
  /\ UNCHANGED <<lockFile, now, lockTime, found, result, marker0>>
  /\ UNCHANGED procVars

\* if (!this.acquireLock()) return
SyncSkipped(p) ==
  /\ pc[p] = "a_false"
  /\ pc' = [pc EXCEPT ![p] = "idle"]
  /\ lockTime' = [lockTime EXCEPT ![p] = 0]
  /\ found' = [found EXCEPT ![p] = "none"]
  /\ UNCHANGED <<lockFile, now, result, marker0, isSyncing, status, pcPush, pcPull>>

\* acquireLock threw: the call sits before the try block of sync()
SyncThrewInAcquire(p) ==
  /\ pc[p] = "a_threw"
  /\ pc' = [pc EXCEPT ![p] = "idle"]
  /\ lockTime' = [lockTime EXCEPT ![p] = 0]
  /\ found' = [found EXCEPT ![p] = "none"]
  /\ UNCHANGED <<lockFile, now, result, marker0, isSyncing, status, pcPush, pcPull>>

\* the lock is held: isSyncing = true, status Syncing, then pull() sets
\* Pulling and awaits gitService.pull()
SyncBegin(p) ==
  /\ pc[p] = "a_true"
  /\ isSyncing' = [isSyncing EXCEPT ![p] = TRUE]
  /\ status' = [status EXCEPT ![p] = "pulling"]
  /\ pc' = [pc EXCEPT ![p] = "pull"]
  /\ UNCHANGED <<lockFile, now, lockTime, found, result, marker0, pcPush, pcPull>>

\* pull() returns: files copied into the working directory, status Synced,
\* then pushWithoutPull() copies, and awaits stage, commit and push
SyncPullOk(p) ==
  /\ pc[p] = "pull"
  /\ status' = [status EXCEPT ![p] = "synced"]
  /\ pc' = [pc EXCEPT ![p] = "push"]
  /\ UNCHANGED <<lockFile, now, lockTime, found, result, marker0, isSyncing, pcPush, pcPull>>

\* pull() or pushWithoutPull() throws: catch sets Error and rethrows
SyncFail(p) ==
  /\ pc[p] \in {"pull", "push"}
  /\ status' = [status EXCEPT ![p] = "error"]
  /\ Finally(p)
  /\ UNCHANGED <<now, marker0, pcPush, pcPull>>

\* pushWithoutPull() returns: status Synced
SyncPushOk(p) ==
  /\ pc[p] = "push"
  /\ status' = [status EXCEPT ![p] = "synced"]
  /\ Finally(p)
  /\ UNCHANGED <<now, marker0, pcPush, pcPull>>

\* push(): status Pushing, await gitService.pull()
PushStart(p) ==
  /\ pcPush[p] = "idle"
  /\ ~Blocked(p)
  /\ status' = [status EXCEPT ![p] = "pushing"]
  /\ pcPush' = [pcPush EXCEPT ![p] = "pull"]
  /\ UNCHANGED <<lockVars, isSyncing, pcPull>>

\* the pull before the push is over: copy, then await stage, commit, push
PushPullOk(p) ==
  /\ pcPush[p] = "pull"
  /\ ~Blocked(p)
  /\ pcPush' = [pcPush EXCEPT ![p] = "push"]
  /\ UNCHANGED <<lockVars, isSyncing, status, pcPull>>

PushOk(p) ==
  /\ pcPush[p] = "push"
  /\ ~Blocked(p)
  /\ status' = [status EXCEPT ![p] = "synced"]
  /\ pcPush' = [pcPush EXCEPT ![p] = "idle"]
  /\ UNCHANGED <<lockVars, isSyncing, pcPull>>

PushFail(p) ==
  /\ pcPush[p] \in {"pull", "push"}
  /\ ~Blocked(p)
  /\ status' = [status EXCEPT ![p] = "error"]
  /\ pcPush' = [pcPush EXCEPT ![p] = "idle"]
  /\ UNCHANGED <<lockVars, isSyncing, pcPull>>

\* pull(): status Pulling, await gitService.pull()
PullStart(p) ==
  /\ pcPull[p] = "idle"
  /\ ~Blocked(p)
  /\ status' = [status EXCEPT ![p] = "pulling"]
  /\ pcPull' = [pcPull EXCEPT ![p] = "pull"]
  /\ UNCHANGED <<lockVars, isSyncing, pcPush>>

\* gitService.pull() is over: copy into the working directory, status Synced
PullOk(p) ==
  /\ pcPull[p] = "pull"
  /\ ~Blocked(p)
  /\ status' = [status EXCEPT ![p] = "synced"]
  /\ pcPull' = [pcPull EXCEPT ![p] = "idle"]
  /\ UNCHANGED <<lockVars, isSyncing, pcPush>>

PullFail(p) ==
  /\ pcPull[p] = "pull"
  /\ ~Blocked(p)
  /\ status' = [status EXCEPT ![p] = "error"]
  /\ pcPull' = [pcPull EXCEPT ![p] = "idle"]
  /\ UNCHANGED <<lockVars, isSyncing, pcPush>>

Init ==
  /\ now \in Times
  /\ lockFile \in {NoFile} \cup {Marker(t) : t \in {u \in Times : IsStale(u, now)}}
  /\ marker0 = IF lockFile.exists THEN "stale" ELSE "absent"
  /\ pc = [p \in Procs |-> "idle"]
  /\ lockTime = [p \in Procs |-> 0]
  /\ found = [p \in Procs |-> "none"]
  /\ result = [p \in Procs |-> FALSE]
  /\ InitProcIdle
  /\ InitMergeIdle
  /\ InitCopyIdle
  /\ InitReplicasIdle
  /\ InitTailIdle
  /\ InitScopeIdle
  /\ InitFilterIdle
  /\ InitSetupIdle
  /\ InitDebounceIdle
  /\ InitTimersIdle
  /\ InitReentryIdle
  /\ InitSubdirIdle
  /\ InitConfiguredIdle
  /\ InitStashIdle
  /\ InitMarkerIdle
  /\ InitGateIdle

Acquire(p) ==
  /\ AcqExists(p) \/ AcqRead(p) \/ AcqUnlink(p) \/ AcqCatch(p) \/ AcqCreate(p)
  /\ UNCHANGED procVars

NextSync ==
  \/ \E p \in Procs : SyncStart(p)
  \/ \E p \in Procs : Acquire(p)
  \/ \E p \in Procs : SyncSkipped(p)
  \/ \E p \in Procs : SyncThrewInAcquire(p)
  \/ \E p \in Procs : SyncBegin(p)
  \/ \E p \in Procs : SyncPullOk(p)
  \/ \E p \in Procs : SyncFail(p)
  \/ \E p \in Procs : SyncPushOk(p)
  \/ \E p \in Procs : PushStart(p)
  \/ \E p \in Procs : PushPullOk(p)
  \/ \E p \in Procs : PushOk(p)
  \/ \E p \in Procs : PushFail(p)
  \/ \E p \in Procs : PullStart(p)
  \/ \E p \in Procs : PullOk(p)
  \/ \E p \in Procs : PullFail(p)
  \/ Tick /\ UNCHANGED procVars

Next == NextSync /\ UNCHANGED <<mergeVars, copyVars, replicaVars, tailVars, scopeVars, filterVars, setupVars, debounceVars, timerVars, reentryVars, subdirVars, configuredVars, stashVars, markerVars, gateVars>>

Spec == Init /\ [][Next]_vars

(***************************************************************************)
(* SpecReentry: sync() is called again in a window whose sync() is awaiting*)
(* pull() or pushWithoutPull() (the interval timer fires, or the user runs *)
(* "sync now").  The synchronous head of the second call runs in one step. *)
(***************************************************************************)
\* if (this.isSyncing) { return; }
IsSyncing_never(p) == FALSE
IsSyncing(p) == isSyncing[p]

Observed(p, marker, flag, shown) == [lockFile |-> marker, isSyncing |-> flag, status |-> shown]

\* Past the flag the call would go through acquireLock, and with the lock
\* through isSyncing = true and the Syncing status.
SyncReentered(p) ==
  /\ pc[p] \in {"pull", "push"}
  /\ rCalls < MaxReentries
  /\ rCalls' = rCalls + 1
  /\ rBefore' = Observed(p, lockFile, isSyncing[p], status[p])
  /\ IF IsSyncing(p)
       THEN UNCHANGED <<lockFile, isSyncing, status>>
     ELSE IF lockFile.exists /\ ~IsStale(lockFile.ts, now)
       THEN UNCHANGED <<lockFile, isSyncing, status>>
     ELSE /\ lockFile' = Marker(now)
          /\ isSyncing' = [isSyncing EXCEPT ![p] = TRUE]
          /\ status' = [status EXCEPT ![p] = "syncing"]
  /\ rAfter' = Observed(p, lockFile', isSyncing'[p], status'[p])
  /\ UNCHANGED <<now, pc, lockTime, found, result, marker0, pcPush, pcPull>>

NextReentry ==
  /\ \/ /\ \/ \E p \in Procs : SyncStart(p)
           \/ \E p \in Procs : Acquire(p)
           \/ \E p \in Procs : SyncSkipped(p)
           \/ \E p \in Procs : SyncThrewInAcquire(p)
           \/ \E p \in Procs : SyncBegin(p)
           \/ \E p \in Procs : SyncPullOk(p)
           \/ \E p \in Procs : SyncFail(p)
           \/ \E p \in Procs : SyncPushOk(p)
           \/ Tick /\ UNCHANGED procVars
        /\ UNCHANGED reentryVars
     \/ \E p \in Procs : SyncReentered(p)
  /\ UNCHANGED <<mergeVars, copyVars, replicaVars, tailVars, scopeVars, filterVars, setupVars,
                 debounceVars, timerVars, subdirVars, configuredVars, stashVars, markerVars, gateVars>>

SpecReentry == Init /\ [][NextReentry]_vars

\* C32: the terminal status Synced is reported only when the whole sync()
\* has finished: while the push half of a sync() runs, with the lock still
\* held, the status of that window is not Synced.
C32_SyncedOnlyAfterWholeSync ==
  \A p \in Procs : (pc[p] = "push" /\ isSyncing[p]) => status[p] # "synced"

\* C25: a sync() called while the sync() of the same window is in progress
\* leaves the lock marker, the status and the isSyncing flag as they were.
C25_ReentrantSyncChangesNothing ==
  (rCalls > 0) => (rAfter = rBefore)

\* the second call came while the first held a marker that had gone stale
C25_Witness ==
  /\ rCalls > 0
  /\ rBefore.isSyncing
  /\ rBefore.lockFile.exists
  /\ IsStale(rBefore.lockFile.ts, now)

\* the operations that write to the repository working tree while in flight
SyncActive(p) == pc[p] \in {"pull", "push"}
PushActive(p) == pcPush[p] \in {"pull", "push"}
PullActive(p) == pcPull[p] = "pull"
ActiveOps ==
  {<<p, "sync">> : p \in {q \in Procs : SyncActive(q)}}
    \cup {<<p, "push">> : p \in {q \in Procs : PushActive(q)}}
    \cup {<<p, "pull">> : p \in {q \in Procs : PullActive(q)}}

\* C1: of two windows whose sync() calls overlap only one is ever inside
\* pull/push; the other ends its call without an error (it is skipped).
C1_OneSyncProceeds ==
  /\ Cardinality({p \in Procs : SyncActive(p)}) <= 1
  /\ \A p \in Procs : pc[p] # "a_threw"

\* C7: at no time are two operations that mutate the working tree in flight
\* together, and each of them runs only while the lock marker is held.
C7_ExclusiveWorkingTree ==
  /\ Cardinality(ActiveOps) <= 1
  /\ (ActiveOps # {}) => lockFile.exists

\* C38: acquireLock is total: whatever the marker's state, and whatever
\* another window does to it between the existence check and the read or
\* the unlink, the call returns true or false and never throws.
C38_AcquireNeverThrows ==
  \A p \in Procs : AcqReturned(p) => pc[p] \in {"a_true", "a_false"}

\* C34: a window inside the critical section of sync() (between its
\* successful acquire and its release) is alone there and its marker is on
\* disk, however long it stays: no other window joins it by reclaiming the
\* marker, and no release of another window removes the marker under it.
C34_HolderStaysAlone ==
  \A p \in Procs :
    SyncActive(p) =>
      /\ lockFile.exists
      /\ ~SyncActive(Other(p))
      /\ pc[Other(p)] # "a_true"

\* C6: every sync() that got the lock leaves, on success and on failure
\* alike, with the marker removed and isSyncing reset; hence whenever no
\* sync() is under way the flags are clear and no marker blocks the next one.
C6_Cleanup ==
  \A p \in Procs :
    (SyncActive(p) /\ pc'[p] = "idle") => (~isSyncing'[p] /\ ~lockFile'.exists)
C6_Syncable ==
  (\A p \in Procs : pc[p] = "idle") =>
    /\ \A p \in Procs : ~isSyncing[p]
    /\ lockFile.exists => now - lockFile.ts > 5 * 60 * 1000
====
